---- MODULE Spec2Model ----
(***************************************************************************)
(* Model of the asynchronous OCR job manager (app/async_ocr_processor.py), *)
(* of the retrying graph load, of the transformation of an entities        *)
(* artifact into a graph payload and its load into the store               *)
(* (app/graph_loader.py, app/libredwg_transformer.py), and of upload_file  *)
(* (app/main.py).                                                          *)
(*                                                                         *)
(* Threads of the job manager: the worker threads (_worker_loop) and the   *)
(* client threads that call the public methods.  A step of the model is a  *)
(* maximal run of statements of one thread that contains at most one       *)
(* access to a field another thread may access; statements that run while  *)
(* self.lock is held only exclude the other lock holders: the workers      *)
(* never take the lock.                                                    *)
(***************************************************************************)
EXTENDS Integers, Sequences, FiniteSets, TLC

\* ---------------------------------------------------------------- bounds
MaxJobs == 2
MaxTicks == 1
MaxRegions == 1
\* the worker threads the scheduler lets run
MaxActive == 1
\* the ingest: payload sizes, batch_size, ingests in a row
MaxNodes == 3
MaxRels == 2
BatchSize == 2
MaxIngests == 2
\* the artifact: entity records of an arbitrary short array, of a long uniform one
MaxEntities == 2
MaxLong == 11
MaxChunkSize == 2
MaxRuns == 2
\* the batches by which replayed writes may have grown the store
MaxReplays == 1
\* the OCR enrichment: the validations of one enrichment
MaxValidations == 2
\* upload_file: the entity counts tried on each side of a threshold
CountMargin == 2
\* the clock of the transformation, in milliseconds: its first reading, its advance
ClockBase == 1000
MaxClock == 1

\* ------------------------------------------------------ program constants
NumWorkers == 2
SecondsPerHour == 3600
\* upload_file: `entities_count > 5000`, `2000 if entities_count > 20000 else 3000`
STREAMING_ENTITY_THRESHOLD == 5000
SMALL_CHUNK_THRESHOLD == 20000
SMALL_CHUNK == 2000
LARGE_CHUNK == 3000
\* transform_to_graph_streaming: `if chunk_count >= 10: break`
STREAM_MAX_CHUNKS == 10

Workers == 1..NumWorkers
ActiveWorkers == {w \in Workers : w <= MaxActive}
Clients == {"c1"}
\* the threads that may be inside submit_job at the same time
AllClients == {"c1", "c2"}
JobIds == 1..MaxJobs
AgeHours == {0, 1}

None == "None"
\* None in a timestamp field; `if self.completed_at` takes None and 0.0 alike
NoTime == 0
\* None as processing_time
NoDuration == -1
\* the exception of `self.completed_at - self.started_at` with started_at None
TypeError == [exc |-> "TypeError"]
NoneRet == [none |-> TRUE]
NoLock == "free"

PENDING == "pending"
PROCESSING == "processing"
COMPLETED == "completed"
FAILED == "failed"
CANCELLED == "cancelled"
JobStatus == {PENDING, PROCESSING, COMPLETED, FAILED, CANCELLED}

VARIABLES
    now,          \* time.time(), in seconds
    job_counter,  \* AsyncOCRProcessor.job_counter
    obj,          \* the OCRJob objects ever created, by job number
    jobs,         \* AsyncOCRProcessor.jobs: the job numbers in the table, in insertion order
    job_queue,    \* AsyncOCRProcessor.job_queue
    lock,         \* AsyncOCRProcessor.lock: NoLock or the client holding it
    files,        \* ocr_results/<job_id>_result.json, by job number
    wpc,          \* position of each worker thread
    wjob,         \* the job a worker took from the queue (0: none)
    wloc,         \* locals of _process_job: ready_for_ocr, the regions, the loop index
    cpc,          \* position of each client thread
    carg,         \* locals of the client's call
    last,         \* the call that returned in the last step, with its result
    cancelled_ok, \* history: the jobs for which cancel_job returned True
    raised,       \* history: the jobs one of whose stages raised
    ipc,          \* position of the ingest (upload_file, load_to_neo4j)
    payload,      \* graph_payload: the numbers of nodes and of relationships
    attempt,      \* upload_file: attempt of the load loop
    retry,        \* execute_with_official_retry_pattern: attempt
    batch_i,      \* load_to_neo4j: i of the batch loop
    load_error,   \* the exception load_to_neo4j is raising, if any
    store,        \* the graph store: the nodes and relationships it holds
    driver,       \* Neo4jDriverManager._driver: "none", "open" or "closed"
    response,     \* what upload_file returned for the last ingest
    ingests,      \* history: the ingests started
    lead,         \* history: the transient errors raised on the ingest's first write attempts
    leading,      \* history: no write attempt of the ingest has succeeded yet
    clean,        \* history: the store raised nothing but those leading transient errors
    gpc,          \* position of the transformation and load of one artifact
    data,         \* the entities artifact: the root array of entity records
    path,         \* upload_file: "whole" (transform_to_graph) or "streaming"
    chunk_size,   \* transform_to_graph_streaming: chunk_size
    consumed,     \* json_chunks_generator: the entities read from the artifact so far
    chunk_count,  \* transform_to_graph_streaming: chunk_count
    clock_ms,     \* int(time.time() * 1000) at its last reading
    graph_payload,\* the payload under construction, then handed to load_to_neo4j
    gbatch,       \* load_to_neo4j: i of the batch loop
    graph,        \* the graph store with its nodes (by element id) and relationships
    run,          \* history: the ingests started on the store
    first,        \* history: the artifact, payload and final store of the first ingest
    written,      \* history: the batches load_to_neo4j handed to the store, in order
    upc,          \* position of upload_file
    staged,       \* the file uploads/<filename>: "absent", "partial" or "complete"
    entities_count, \* upload_file: entities_count
    transformation, \* upload_file: the transformation chosen for the artifact
    up_chunk_size,  \* upload_file: chunk_size of the streaming transformation
    up_response,  \* what upload_file returned to its caller
    failed_at,    \* history: the step of upload_file that raised
    alarm,        \* the SIGALRM timer of upload_file: "off", "armed" or "fired"
    payload_by    \* upload_file: the transformation that returned graph_payload

jobVars == <<now, job_counter, obj, jobs, job_queue, lock, files, wpc, wjob, wloc,
             cpc, carg, last, cancelled_ok, raised>>

ingestVars == <<ipc, payload, attempt, retry, batch_i, load_error, store, driver,
               response, ingests, lead, leading, clean>>

graphVars == <<gpc, data, path, chunk_size, consumed, chunk_count, clock_ms, graph_payload,
              gbatch, graph, run, first, written>>

uploadVars == <<upc, staged, entities_count, transformation, up_chunk_size, up_response,
               failed_at, alarm, payload_by>>

timerVars == <<alarm, payload_by>>

vars == <<jobVars, ingestVars, graphVars, uploadVars>>

NoEvent == [op |-> "none"]
NoLocals == [ready |-> FALSE, n |-> 0, i |-> 0]

InTable(j) == \E k \in 1..Len(jobs) : jobs[k] = j

\* OCRJob.__init__
NewJob(t) ==
    [status |-> PENDING, progress |-> 0, current_stage |-> "Iniciando",
     result |-> None, error |-> None, created_at |-> t, started_at |-> NoTime,
     completed_at |-> NoTime, metrics |-> {}]

InitJobs ==
    /\ now = SecondsPerHour
    /\ job_counter = 0
    /\ obj = <<>>
    /\ jobs = <<>>
    /\ job_queue = <<>>
    /\ lock = NoLock
    /\ files = <<>>
    /\ wpc = [w \in Workers |-> "idle"]
    /\ wjob = [w \in Workers |-> 0]
    /\ wloc = [w \in Workers |-> NoLocals]
    /\ cpc = [c \in AllClients |-> "idle"]
    /\ carg = [c \in AllClients |-> 0]
    /\ last = NoEvent
    /\ cancelled_ok = {}
    /\ raised = {}

\* time passes
Tick ==
    /\ now + SecondsPerHour <= SecondsPerHour * (MaxTicks + 1)
    /\ now' = now + SecondsPerHour
    /\ last' = NoEvent
    /\ UNCHANGED <<job_counter, obj, jobs, job_queue, lock, files, wpc, wjob, wloc,
                   cpc, carg, cancelled_ok, raised,
                   ingestVars, graphVars, uploadVars>>

\* mutant: job_counter is read and written without the lock, so a caller gets
\* the id of a call that is still under way
SubmitJobMutant(c) ==
    /\ cpc[c] = "idle"
    /\ lock = NoLock
    /\ job_counter < MaxJobs
    /\ job_counter' = job_counter + 1
    /\ obj' = Append(obj, NewJob(now))
    /\ cpc' = [cpc EXCEPT ![c] = "submit_insert"]
    /\ carg' = [carg EXCEPT ![c] =
                  IF \E d \in AllClients : carg[d] # 0 /\ cpc[d] = "submit_insert"
                    THEN job_counter ELSE job_counter + 1]
    /\ last' = NoEvent
    /\ UNCHANGED <<now, jobs, job_queue, lock, files, wpc, wjob, wloc, cancelled_ok, raised,
                   ingestVars, graphVars, uploadVars>>

\* submit_job, the first locked block and the construction of the job
SubmitJob(c) ==
    /\ cpc[c] = "idle"
    /\ lock = NoLock
    /\ job_counter < MaxJobs
    /\ job_counter' = job_counter + 1
    /\ obj' = Append(obj, NewJob(now))
    /\ cpc' = [cpc EXCEPT ![c] = "submit_insert"]
    /\ carg' = [carg EXCEPT ![c] = job_counter + 1]
    /\ last' = NoEvent
    /\ UNCHANGED <<now, jobs, job_queue, lock, files, wpc, wjob, wloc, cancelled_ok, raised,
                   ingestVars, graphVars, uploadVars>>

\* submit_job, the second locked block
SubmitInsert(c) ==
    /\ cpc[c] = "submit_insert"
    /\ lock = NoLock
    /\ jobs' = Append(jobs, carg[c])
    /\ cpc' = [cpc EXCEPT ![c] = "submit_put"]
    /\ last' = NoEvent
    /\ UNCHANGED <<now, job_counter, obj, job_queue, lock, files, wpc, wjob, wloc,
                   carg, cancelled_ok, raised,
                   ingestVars, graphVars, uploadVars>>

\* submit_job, the put on the queue and the return
SubmitPut(c) ==
    /\ cpc[c] = "submit_put"
    /\ job_queue' = Append(job_queue, carg[c])
    /\ cpc' = [cpc EXCEPT ![c] = "idle"]
    /\ carg' = [carg EXCEPT ![c] = 0]
    /\ last' = [op |-> "submit_job", client |-> c, job |-> carg[c], ret |-> carg[c]]
    /\ UNCHANGED <<now, job_counter, obj, jobs, lock, files, wpc, wjob, wloc,
                   cancelled_ok, raised,
                   ingestVars, graphVars, uploadVars>>

\* mutant: a job being processed can be cancelled too
CancelAllowedMutant(j) == InTable(j) /\ obj[j].status \in {PENDING, PROCESSING}

\* the condition of cancel_job, read while the lock is held
CancelAllowed(j) == InTable(j) /\ obj[j].status = PENDING

\* cancel_job up to the test of the job's status
CancelJob(c, j) ==
    /\ cpc[c] = "idle"
    /\ lock = NoLock
    /\ IF CancelAllowed(j)
         THEN /\ lock' = c
              /\ cpc' = [cpc EXCEPT ![c] = "cancel_set"]
              /\ carg' = [carg EXCEPT ![c] = j]
              /\ last' = NoEvent
         ELSE /\ last' = [op |-> "cancel_job", client |-> c, job |-> j, ret |-> FALSE]
              /\ UNCHANGED <<lock, cpc, carg>>
    /\ UNCHANGED <<now, job_counter, obj, jobs, job_queue, files, wpc, wjob, wloc,
                   cancelled_ok, raised,
                   ingestVars, graphVars, uploadVars>>

\* cancel_job, the writes of the branch taken for a PENDING job
CancelSet(c) ==
    /\ cpc[c] = "cancel_set"
    /\ lock = c
    /\ obj' = [obj EXCEPT ![carg[c]].status = CANCELLED,
                          ![carg[c]].completed_at = now]
    /\ lock' = NoLock
    /\ cpc' = [cpc EXCEPT ![c] = "idle"]
    /\ carg' = [carg EXCEPT ![c] = 0]
    /\ last' = [op |-> "cancel_job", client |-> c, job |-> carg[c], ret |-> TRUE]
    /\ cancelled_ok' = cancelled_ok \cup {carg[c]}
    /\ UNCHANGED <<now, job_counter, jobs, job_queue, files, wpc, wjob, wloc, raised,
                   ingestVars, graphVars, uploadVars>>

\* OCRJob.to_dict: the subtraction raises TypeError when started_at is None
to_dict(j) ==
    IF obj[j].completed_at # NoTime /\ obj[j].started_at = NoTime
      THEN TypeError
      ELSE [job_id |-> j,
            status |-> obj[j].status,
            progress |-> obj[j].progress,
            current_stage |-> obj[j].current_stage,
            created_at |-> obj[j].created_at,
            started_at |-> obj[j].started_at,
            completed_at |-> obj[j].completed_at,
            processing_time |-> IF obj[j].completed_at # NoTime
                                  THEN obj[j].completed_at - obj[j].started_at
                                  ELSE NoDuration,
            metrics |-> obj[j].metrics,
            error |-> obj[j].error]

\* get_job_status, the lookup in the table under the lock
GetJobStatus(c, j) ==
    /\ cpc[c] = "idle"
    /\ lock = NoLock
    /\ IF InTable(j)
         THEN /\ cpc' = [cpc EXCEPT ![c] = "status_dict"]
              /\ carg' = [carg EXCEPT ![c] = j]
              /\ last' = NoEvent
         ELSE /\ last' = [op |-> "get_job_status", client |-> c, job |-> j, found |-> FALSE,
                          ret |-> NoneRet]
              /\ UNCHANGED <<cpc, carg>>
    /\ UNCHANGED <<now, job_counter, obj, jobs, job_queue, lock, files, wpc, wjob, wloc,
                   cancelled_ok, raised,
                   ingestVars, graphVars, uploadVars>>

\* get_job_status, the conversion of the job found
GetJobStatusDict(c) ==
    /\ cpc[c] = "status_dict"
    /\ last' = [op |-> "get_job_status", client |-> c, job |-> carg[c], found |-> TRUE,
                ret |-> to_dict(carg[c])]
    /\ cpc' = [cpc EXCEPT ![c] = "idle"]
    /\ carg' = [carg EXCEPT ![c] = 0]
    /\ UNCHANGED <<now, job_counter, obj, jobs, job_queue, lock, files, wpc, wjob, wloc,
                   cancelled_ok, raised,
                   ingestVars, graphVars, uploadVars>>

\* get_all_jobs: the list comprehension raises when one conversion raises
AllJobsList ==
    IF \E k \in 1..Len(jobs) : to_dict(jobs[k]) = TypeError
      THEN TypeError
      ELSE [list |-> [k \in 1..Len(jobs) |-> to_dict(jobs[k])]]

GetAllJobs(c) ==
    /\ cpc[c] = "idle"
    /\ lock = NoLock
    /\ last' = [op |-> "get_all_jobs", client |-> c, ret |-> AllJobsList]
    /\ UNCHANGED <<now, job_counter, obj, jobs, job_queue, lock, files, wpc, wjob, wloc,
                   cpc, carg, cancelled_ok, raised,
                   ingestVars, graphVars, uploadVars>>

\* cleanup_old_jobs, the reading of the clock before the lock is taken
CleanupOldJobs(c) ==
    /\ cpc[c] = "idle"
    /\ cpc' = [cpc EXCEPT ![c] = "cleanup_lock"]
    /\ carg' = [carg EXCEPT ![c] = now]
    /\ last' = NoEvent
    /\ UNCHANGED <<now, job_counter, obj, jobs, job_queue, lock, files, wpc, wjob, wloc,
                   cancelled_ok, raised,
                   ingestVars, graphVars, uploadVars>>

\* mutant: a job exactly max_age old is removed too
IsOldMutant(j, current_time, max_age_seconds) ==
    (current_time - obj[j].created_at) >= max_age_seconds

\* the test of the list comprehension of cleanup_old_jobs
IsOld(j, current_time, max_age_seconds) ==
    (current_time - obj[j].created_at) > max_age_seconds

\* cleanup_old_jobs(max_age_hours = h), the locked block (the argument is first
\* used here); the function has no return statement
CleanupLocked(c, h) ==
    /\ cpc[c] = "cleanup_lock"
    /\ lock = NoLock
    /\ jobs' = SelectSeq(jobs, LAMBDA j : ~IsOld(j, carg[c], h * SecondsPerHour))
    /\ cpc' = [cpc EXCEPT ![c] = "idle"]
    /\ carg' = [carg EXCEPT ![c] = 0]
    /\ last' = [op |-> "cleanup_old_jobs", client |-> c, current_time |-> carg[c], max_age_hours |-> h,
                ret |-> NoneRet]
    /\ UNCHANGED <<now, job_counter, obj, job_queue, lock, files, wpc, wjob, wloc,
                   cancelled_ok, raised,
                   ingestVars, graphVars, uploadVars>>

\* ------------------------------------------------------------ the workers
WorkerVarsOnly == <<now, job_counter, jobs, job_queue, lock, files, cpc, carg,
                    cancelled_ok, ingestVars, graphVars, uploadVars>>

Goto(w, to) == wpc' = [wpc EXCEPT ![w] = to]

\* mutant: the job taken stays on the queue
WorkerGetMutant(w) ==
    /\ wpc[w] = "idle"
    /\ job_queue # <<>>
    /\ wjob' = [wjob EXCEPT ![w] = Head(job_queue)]
    /\ Goto(w, "check")
    /\ last' = NoEvent
    /\ UNCHANGED <<now, job_counter, obj, jobs, job_queue, lock, files, wloc, cpc, carg,
                   cancelled_ok, raised,
                   ingestVars, graphVars, uploadVars>>

\* _worker_loop: job_queue.get returns a job (queue.Empty only restarts the loop)
WorkerGet(w) ==
    /\ wpc[w] = "idle"
    /\ job_queue # <<>>
    /\ wjob' = [wjob EXCEPT ![w] = Head(job_queue)]
    /\ job_queue' = Tail(job_queue)
    /\ Goto(w, "check")
    /\ last' = NoEvent
    /\ UNCHANGED <<now, job_counter, obj, jobs, lock, files, wloc, cpc, carg,
                   cancelled_ok, raised,
                   ingestVars, graphVars, uploadVars>>

\* the test of _worker_loop that skips a job
SkipJob(j) == obj[j].status = CANCELLED

\* _worker_loop: the job taken is skipped or handed to _process_job
WorkerCheck(w) ==
    /\ wpc[w] = "check"
    /\ IF SkipJob(wjob[w])
         THEN /\ Goto(w, "idle")
              /\ wjob' = [wjob EXCEPT ![w] = 0]
         ELSE /\ Goto(w, "begin")
              /\ UNCHANGED wjob
    /\ last' = NoEvent
    /\ UNCHANGED <<now, job_counter, obj, jobs, job_queue, lock, files, wloc, cpc, carg,
                   cancelled_ok, raised,
                   ingestVars, graphVars, uploadVars>>

\* a step of _process_job that writes fields of the worker's job
JobStep(w, from, to, newJob) ==
    /\ wpc[w] = from
    /\ Goto(w, to)
    /\ obj' = [obj EXCEPT ![wjob[w]] = newJob]
    /\ last' = NoEvent
    /\ UNCHANGED <<wjob, WorkerVarsOnly>>

\* mutant: the exception is not caught by _process_job
RaiseMutant(w, from) ==
    /\ wpc[w] = from
    /\ Goto(w, "finally")
    /\ raised' = raised \cup {wjob[w]}
    /\ last' = NoEvent
    /\ UNCHANGED <<obj, wjob, wloc, WorkerVarsOnly>>

\* a call of _process_job raises: control goes to the except clause
Raise(w, from) ==
    /\ wpc[w] = from
    /\ Goto(w, "except")
    /\ raised' = raised \cup {wjob[w]}
    /\ last' = NoEvent
    /\ UNCHANGED <<obj, wjob, wloc, WorkerVarsOnly>>

Job(w) == obj[wjob[w]]

\* _process_job: status and started_at, then the first stage's name and progress
ProcessBegin(w) ==
    /\ JobStep(w, "begin", "stage1",
               [Job(w) EXCEPT !.status = PROCESSING, !.started_at = now])
    /\ UNCHANGED <<wloc, raised>>

Stage1Start(w) ==
    /\ JobStep(w, "stage1", "extract",
               [Job(w) EXCEPT !.current_stage = "Extracao CAD aprimorada",
                              !.progress = 100])
    /\ UNCHANGED <<wloc, raised>>

\* extract_enhanced_cad_data returns; progress, metrics and the ready_for_ocr test
ExtractDone(w, ready) ==
    /\ JobStep(w, "extract", IF ready THEN "stage2" ELSE "early_stage",
               [Job(w) EXCEPT !.progress = 300,
                              !.metrics = @ \cup {"extraction_time", "regions_found"}])
    /\ wloc' = [wloc EXCEPT ![w].ready = ready]
    /\ UNCHANGED raised

ExtractRaises(w) == Raise(w, "extract")

\* the early exit: stage and progress, then status, then completed_at and result
EarlyStage(w) ==
    /\ JobStep(w, "early_stage", "early_status",
               [Job(w) EXCEPT !.current_stage = "Concluido - Sem regioes para OCR",
                              !.progress = 1000])
    /\ UNCHANGED <<wloc, raised>>

EarlyStatus(w) ==
    /\ JobStep(w, "early_status", "early_result", [Job(w) EXCEPT !.status = COMPLETED])
    /\ UNCHANGED <<wloc, raised>>

EarlyResult(w) ==
    /\ JobStep(w, "early_result", "finally",
               [Job(w) EXCEPT !.completed_at = now, !.result = "no_regions"])
    /\ UNCHANGED <<wloc, raised>>

\* stage 2
Stage2Start(w) ==
    /\ JobStep(w, "stage2", "regions",
               [Job(w) EXCEPT !.current_stage = "Processamento OCR", !.progress = 400])
    /\ UNCHANGED <<wloc, raised>>

\* get_ocr_ready_regions and the construction of the OCR processor return
RegionsDone(w, n) ==
    /\ wpc[w] = "regions"
    /\ Goto(w, "ocr_loop")
    /\ wloc' = [wloc EXCEPT ![w].n = n, ![w].i = 0]
    /\ last' = NoEvent
    /\ UNCHANGED <<obj, wjob, raised, WorkerVarsOnly>>

RegionsRaise(w) == Raise(w, "regions")

\* job.progress = 0.4 + (0.3 * (i / max(1, len(ocr_ready_regions)))), in thousandths
LoopProgress(i, n) == 400 + (300 * i) \div (IF n > 1 THEN n ELSE 1)

\* the head of the region loop: the next region's progress and stage, or the
\* writes that follow the loop
OcrLoop(w) ==
    /\ IF wloc[w].i < wloc[w].n
         THEN JobStep(w, "ocr_loop", "ocr_region",
                      [Job(w) EXCEPT !.progress = LoopProgress(wloc[w].i, wloc[w].n),
                                     !.current_stage = "OCR regiao"])
         ELSE JobStep(w, "ocr_loop", "validate",
                      [Job(w) EXCEPT !.metrics = @ \cup {"ocr_time", "ocr_results"},
                                     !.progress = 700,
                                     !.current_stage = "Validacao CAD-OCR"])
    /\ UNCHANGED <<wloc, raised>>

\* the body of the region loop returns
OcrRegionDone(w) ==
    /\ wpc[w] = "ocr_region"
    /\ Goto(w, "ocr_loop")
    /\ wloc' = [wloc EXCEPT ![w].i = @ + 1]
    /\ last' = NoEvent
    /\ UNCHANGED <<obj, wjob, raised, WorkerVarsOnly>>

OcrRegionRaises(w) == Raise(w, "ocr_region")

\* stage 3: cross_validate_cad_ocr returns
ValidateDone(w) ==
    /\ JobStep(w, "validate", "quality",
               [Job(w) EXCEPT !.metrics = @ \cup {"validation_time", "validations",
                                                  "discoveries"},
                              !.progress = 850,
                              !.current_stage = "Analise de qualidade"])
    /\ UNCHANGED <<wloc, raised>>

ValidateRaises(w) == Raise(w, "validate")

\* stage 4: analyze_ocr_quality returns
QualityDone(w) ==
    /\ JobStep(w, "quality", "enrich",
               [Job(w) EXCEPT !.metrics = @ \cup {"health_score"},
                              !.progress = 950,
                              !.current_stage = "Preparando enriquecimento"])
    /\ UNCHANGED <<wloc, raised>>

QualityRaises(w) == Raise(w, "quality")

\* stage 5: get_neo4j_enrichment_data returns and the result is assembled
EnrichDone(w) ==
    /\ JobStep(w, "enrich", "done_status", [Job(w) EXCEPT !.result = "ocr_ok"])
    /\ UNCHANGED <<wloc, raised>>

EnrichRaises(w) == Raise(w, "enrich")

DoneStatus(w) ==
    /\ JobStep(w, "done_status", "done_progress", [Job(w) EXCEPT !.status = COMPLETED])
    /\ UNCHANGED <<wloc, raised>>

DoneProgress(w) ==
    /\ JobStep(w, "done_progress", "finally",
               [Job(w) EXCEPT !.progress = 1000, !.current_stage = "Concluido"])
    /\ UNCHANGED <<wloc, raised>>

\* the except clause: status, then error and stage
ExceptStatus(w) ==
    /\ JobStep(w, "except", "except_error", [Job(w) EXCEPT !.status = FAILED])
    /\ UNCHANGED <<wloc, raised>>

ExceptError(w) ==
    /\ JobStep(w, "except_error", "finally",
               [Job(w) EXCEPT !.error = "exception", !.current_stage = "Erro"])
    /\ UNCHANGED <<wloc, raised>>

\* the finally clause: completed_at
Finally(w) ==
    /\ JobStep(w, "finally", "save", [Job(w) EXCEPT !.completed_at = now])
    /\ UNCHANGED <<wloc, raised>>

\* the document _save_job_result writes
ResultData(j) ==
    [dict |-> to_dict(j),
     result |-> IF obj[j].status = COMPLETED THEN obj[j].result ELSE None]

\* _save_job_result writes the file; the worker is back in its loop
SaveResult(w) ==
    /\ wpc[w] = "save"
    /\ files' = (wjob[w] :> ResultData(wjob[w])) @@ files
    /\ Goto(w, "idle")
    /\ wjob' = [wjob EXCEPT ![w] = 0]
    /\ wloc' = [wloc EXCEPT ![w] = NoLocals]
    /\ last' = NoEvent
    /\ UNCHANGED <<now, job_counter, obj, jobs, job_queue, lock, cpc, carg,
                   cancelled_ok, raised,
                   ingestVars, graphVars, uploadVars>>

\* _save_job_result raises (mkdir, open or write fails): _worker_loop catches the
\* exception, prints it and goes on
SaveRaises(w) ==
    /\ wpc[w] = "save"
    /\ Goto(w, "idle")
    /\ wjob' = [wjob EXCEPT ![w] = 0]
    /\ wloc' = [wloc EXCEPT ![w] = NoLocals]
    /\ last' = NoEvent
    /\ UNCHANGED <<now, job_counter, obj, jobs, job_queue, lock, files, cpc, carg,
                   cancelled_ok, raised,
                   ingestVars, graphVars, uploadVars>>

Worker(w) ==
    \/ WorkerGet(w)
    \/ WorkerCheck(w)
    \/ ProcessBegin(w)
    \/ Stage1Start(w)
    \/ \E ready \in BOOLEAN : ExtractDone(w, ready)
    \/ ExtractRaises(w)
    \/ EarlyStage(w)
    \/ EarlyStatus(w)
    \/ EarlyResult(w)
    \/ Stage2Start(w)
    \/ \E n \in 0..MaxRegions : RegionsDone(w, n)
    \/ RegionsRaise(w)
    \/ OcrLoop(w)
    \/ OcrRegionDone(w)
    \/ OcrRegionRaises(w)
    \/ ValidateDone(w)
    \/ ValidateRaises(w)
    \/ QualityDone(w)
    \/ QualityRaises(w)
    \/ EnrichDone(w)
    \/ EnrichRaises(w)
    \/ DoneStatus(w)
    \/ DoneProgress(w)
    \/ ExceptStatus(w)
    \/ ExceptError(w)
    \/ Finally(w)
    \/ SaveResult(w)
    \/ SaveRaises(w)

\* -------------------------------------------- the graph payload and the store
\* JSON values of an entity record or of a node: a number, a string, an array of
\* numbers, a coordinate record {x, y, z}, or null
Num(n) == [kind |-> "number", str |-> "", val |-> <<n>>]
Str(t) == [kind |-> "string", str |-> t, val |-> <<>>]
Arr(a) == [kind |-> "array", str |-> "", val |-> a]
Xyz(x, y, z) == [kind |-> "dict", str |-> "", val |-> <<x, y, z>>]
Null == [kind |-> "null", str |-> "", val |-> <<>>]
\* the empty dict {}
EmptyMap == [kind |-> "map", str |-> "", val |-> <<>>]

\* entity records of the artifact (absent keys are Null, as entity.get gives None)
Entity(type, start, end, is_closed) ==
    [type |-> type, layer |-> "W", start |-> start, end |-> end, is_closed |-> is_closed]
LineArr2 == Entity("LINE", Arr(<<0, 0>>), Arr(<<10, 0>>), FALSE)
LineArr3 == Entity("LINE", Arr(<<0, 0, 0>>), Arr(<<10, 0, 5>>), FALSE)
LineXyz == Entity("LINE", Xyz(0, 0, 0), Xyz(10, 0, 0), FALSE)
ClosedPolyline == Entity("LWPOLYLINE", Null, Null, TRUE)
OpenPolyline == Entity("LWPOLYLINE", Null, Null, FALSE)
ScaleInfo == Entity("SCALE_INFO", Null, Null, FALSE)
Circle == Entity("CIRCLE", Null, Null, FALSE)
Text == Entity("TEXT", Null, Null, FALSE)
Insert == Entity("INSERT", Null, Null, FALSE)
Entities == {LineArr2, LineArr3, LineXyz, ClosedPolyline, OpenPolyline, ScaleInfo,
             Circle, Text, Insert}

\* the artifacts: every short array of entity records, and long arrays of one LINE
Artifacts ==
    UNION {[1..n -> Entities] : n \in 0..MaxEntities}
      \cup {[i \in 1..n |-> LineArr2] : n \in {MaxLong}}

\* _new_uid: f"{prefix}_{counter}"
_new_uid(prefix, counter) == <<prefix, counter>>
building_uid == <<"building", 1>>
floor_uid == <<"floor", 1>>
NoUid == <<"">>

Rel(start_label, start_uid, type, end_label, end_uid) ==
    [start_label |-> start_label, start_uid |-> start_uid, type |-> type,
     end_label |-> end_label, end_uid |-> end_uid]

BuildingNode ==
    [label |-> "Building", uid |-> building_uid, props |-> ("name" :> Str("DWG Building"))]
FloorNode ==
    [label |-> "Floor", uid |-> floor_uid,
     props |-> ("name" :> Str("Floor 1")) @@ ("level" :> Num(1))]
HasFloor == Rel("Building", building_uid, "HAS_FLOOR", "Floor", floor_uid)

MetadataProps ==
    ("type" :> Str("SCALE_INFO")) @@ ("dimscale" :> Num(1)) @@ ("ltscale" :> Num(1))
      @@ ("cmlscale" :> Num(1)) @@ ("celtscale" :> Num(1))
SpaceProps(entity) ==
    ("raw_points" :> Null) @@ ("point_count" :> Num(0)) @@ ("layer" :> Str(entity.layer))
WallProps(entity) ==
    ("start" :> entity.start) @@ ("end" :> entity.end) @@ ("layer" :> Str(entity.layer))
\* a CIRCLE record without center and radius
FeatureProps(entity) ==
    ("type" :> Str(entity.type)) @@ ("layer" :> Str(entity.layer)) @@ ("center" :> Null)
      @@ ("radius" :> Num(0))
\* a TEXT record without text, insert and height: transform_to_graph replaces
\* the insert {} by insert_x, insert_y, insert_z
AnnotationProps(entity) ==
    ("text" :> Str("")) @@ ("type" :> Str(entity.type)) @@ ("height" :> Num(1))
      @@ ("layer" :> Str(entity.layer)) @@ ("insert_x" :> Num(0)) @@ ("insert_y" :> Num(0))
      @@ ("insert_z" :> Num(0))
\* transform_chunk_to_graph keeps the insert {}
ChunkAnnotationProps(entity) ==
    ("text" :> Str("")) @@ ("type" :> Str(entity.type)) @@ ("insert" :> EmptyMap)
      @@ ("height" :> Num(1)) @@ ("layer" :> Str(entity.layer))
\* an INSERT record with its layer only
BlockProps(entity) ==
    ("block_name" :> Str("")) @@ ("insert" :> Null) @@ ("rotation" :> Num(0))
      @@ ("xscale" :> Num(1)) @@ ("yscale" :> Num(1)) @@ ("zscale" :> Num(1))
      @@ ("layer" :> Str(entity.layer))

\* one turn of the entity loop: `acc` holds nodes, relationships and the counters;
\* `metadata_uid` is the uid the caller gives a Metadata node, `annotation` the
\* properties it gives an Annotation node
EntityToGraph(acc, entity, metadata_uid, annotation) ==
    IF entity.type = "SCALE_INFO" THEN
        [acc EXCEPT
            !.nodes = Append(@, [label |-> "Metadata", uid |-> metadata_uid,
                                 props |-> MetadataProps]),
            !.relationships = Append(@, Rel("Building", building_uid, "HAS_METADATA",
                                            "Metadata", metadata_uid))]
    ELSE IF entity.type = "LWPOLYLINE" /\ entity.is_closed THEN
        [acc EXCEPT
            !.nodes = Append(@, [label |-> "Space",
                                 uid |-> _new_uid("space", acc.space_counter),
                                 props |-> SpaceProps(entity)]),
            !.relationships = Append(@, Rel("Floor", floor_uid, "HAS_SPACE", "Space",
                                            _new_uid("space", acc.space_counter))),
            !.space_counter = @ + 1]
    ELSE IF entity.type = "LINE" THEN
        [acc EXCEPT
            !.nodes = Append(@, [label |-> "WallSegment",
                                 uid |-> _new_uid("wall", acc.wall_counter),
                                 props |-> WallProps(entity)]),
            !.relationships = Append(@, Rel("Floor", floor_uid, "HAS_WALL", "WallSegment",
                                            _new_uid("wall", acc.wall_counter))),
            !.wall_counter = @ + 1]
    ELSE IF entity.type \in {"CIRCLE", "ARC"} THEN
        [acc EXCEPT
            !.nodes = Append(@, [label |-> "Feature",
                                 uid |-> _new_uid("feature", acc.feature_counter),
                                 props |-> FeatureProps(entity)]),
            !.relationships = Append(@, Rel("Floor", floor_uid, "HAS_FEATURE", "Feature",
                                            _new_uid("feature", acc.feature_counter))),
            !.feature_counter = @ + 1]
    ELSE IF entity.type \in {"TEXT", "MTEXT", "ATTRIB", "ATTDEF", "MULTILEADER"} THEN
        [acc EXCEPT
            !.nodes = Append(@, [label |-> "Annotation",
                                 uid |-> _new_uid("annotation", acc.annotation_counter),
                                 props |-> annotation]),
            !.relationships = Append(@, Rel("Floor", floor_uid, "HAS_ANNOTATION", "Annotation",
                                            _new_uid("annotation", acc.annotation_counter))),
            !.annotation_counter = @ + 1]
    ELSE IF entity.type = "INSERT" THEN
        [acc EXCEPT
            !.nodes = Append(@, [label |-> "BlockReference",
                                 uid |-> _new_uid("feature", acc.feature_counter),
                                 props |-> BlockProps(entity)]),
            !.relationships = Append(@, Rel("Floor", floor_uid, "HAS_BLOCK_REFERENCE",
                                            "BlockReference",
                                            _new_uid("feature", acc.feature_counter))),
            !.feature_counter = @ + 1]
    ELSE acc

\* transform_chunk_to_graph: the counters start at the clock reading, and a
\* Metadata node is f"metadata_{timestamp}_{len(nodes)}"
RECURSIVE ChunkLoop(_, _, _, _)
ChunkLoop(entities_chunk, i, timestamp, acc) ==
    IF i > Len(entities_chunk) THEN acc
    ELSE ChunkLoop(entities_chunk, i + 1, timestamp,
                   EntityToGraph(acc, entities_chunk[i],
                                 <<"metadata", timestamp, Len(acc.nodes)>>,
                                 ChunkAnnotationProps(entities_chunk[i])))

transform_chunk_to_graph(entities_chunk, timestamp) ==
    LET acc == ChunkLoop(entities_chunk, 1, timestamp,
                         [nodes |-> <<>>, relationships |-> <<>>,
                          space_counter |-> timestamp, wall_counter |-> timestamp,
                          feature_counter |-> timestamp, annotation_counter |-> timestamp])
    IN  [nodes |-> acc.nodes, relationships |-> acc.relationships]

\* LibreDWGTransformer._convert_numeric: round(value, 6)
_convert_numeric(n) == n

\* LibreDWGTransformer._transform_value on a value of an entity record: a list is
\* transformed item by item and stays a list
_transform_value(v) ==
    IF v.kind \in {"array", "dict", "number"}
      THEN [v EXCEPT !.val = [i \in DOMAIN v.val |-> _convert_numeric(v.val[i])]]
      ELSE v

\* _is_complex_nested_dict on an entity record: one of its values is a dict of
\* more than one key
_is_complex_nested_dict(entity) == "dict" \in {entity.start.kind, entity.end.kind}

\* _flatten_complex_dict on an entity record: a value {x, y, z} under key becomes
\* the keys key_x, key_y, key_z, which the entity loop does not read, and the
\* record has no key any more
_flatten_complex_dict(entity) ==
    [entity EXCEPT !.start = IF @.kind = "dict" THEN Null ELSE _transform_value(@),
                   !.end = IF @.kind = "dict" THEN Null ELSE _transform_value(@)]

\* LibreDWGTransformer.transform on a list: _transform_value of every item, which
\* for a record flattens it when it is complex
transform(entities) ==
    [i \in DOMAIN entities |->
        IF _is_complex_nested_dict(entities[i]) THEN _flatten_complex_dict(entities[i])
        ELSE [entities[i] EXCEPT !.start = _transform_value(@), !.end = _transform_value(@)]]

\* transform_to_graph: the first record decides whether the data is transformed
needs_transformation(entities) ==
    /\ Len(entities) > 0
    /\ \/ entities[1].start.kind = "array"
       \/ entities[1].end.kind = "array"

RECURSIVE WholeLoop(_, _, _)
WholeLoop(entities, i, acc) ==
    IF i > Len(entities) THEN acc
    ELSE WholeLoop(entities, i + 1,
                   EntityToGraph(acc, entities[i], _new_uid("metadata", 1),
                                 AnnotationProps(entities[i])))

transform_to_graph(json_file) ==
    LET entities == IF needs_transformation(json_file) THEN transform(json_file)
                    ELSE json_file
        acc == WholeLoop(entities, 1,
                         [nodes |-> <<BuildingNode, FloorNode>>,
                          relationships |-> <<HasFloor>>,
                          space_counter |-> 1, wall_counter |-> 1,
                          feature_counter |-> 1, annotation_counter |-> 1])
    IN  [nodes |-> acc.nodes, relationships |-> acc.relationships]

\* ------------------------------------------------- the OCR enhancement
\* upload_file: `"confidence": 0.85`, in thousandths
OcrConfidence == 850

\* an item of ocr_enrichment_data["ocr_nodes"]
OcrNodeData(text, region_id) ==
    [text |-> text, confidence |-> OcrConfidence, region_id |-> region_id]
\* an item of validation_relationships, of discovery_relationships
Validation == [confidence |-> OcrConfidence, correlation_type |-> "exact", cad_text |-> "A"]
Discovery(ocr_text) ==
    [ocr_text |-> ocr_text, confidence |-> OcrConfidence, region_type |-> "title"]

\* the enrichment data: one or two recognised texts of one or two regions, up
\* to MaxValidations validations (one more than there are texts among them), a
\* discovery of a recognised text or of a text that was not recognised
OcrNodeLists ==
    {<<OcrNodeData("A", "r1")>>,
     <<OcrNodeData("A", "r1"), OcrNodeData("B", "r1")>>,
     <<OcrNodeData("A", "r1"), OcrNodeData("B", "r2")>>,
     <<OcrNodeData("A", "r1"), OcrNodeData("A", "r2")>>}
Enrichments ==
    [ocr_nodes : OcrNodeLists,
     validation_relationships : {[i \in 1..n |-> Validation] : n \in 0..MaxValidations},
     discovery_relationships : {<<>>, <<Discovery("B")>>, <<Discovery("C")>>}]

\* region_groups: the region ids of the ocr_nodes in the order of their first node
RECURSIVE RegionGroups(_, _, _)
RegionGroups(ocr_nodes, i, groups) ==
    IF i > Len(ocr_nodes) THEN groups
    ELSE RegionGroups(ocr_nodes, i + 1,
                      IF \E k \in 1..Len(groups) : groups[k] = ocr_nodes[i].region_id
                        THEN groups ELSE Append(groups, ocr_nodes[i].region_id))

\* the ocr_nodes of one region
InRegion(ocr_nodes, region_id) ==
    {i \in 1..Len(ocr_nodes) : ocr_nodes[i].region_id = region_id}

RECURSIVE Sum(_, _)
Sum(f, S) == IF S = {} THEN 0 ELSE LET x == CHOOSE x \in S : TRUE IN f[x] + Sum(f, S \ {x})

\* sum(confidences) / len(confidences), in thousandths
AvgConfidence(ocr_nodes, region_id) ==
    Sum([i \in 1..Len(ocr_nodes) |-> ocr_nodes[i].confidence], InRegion(ocr_nodes, region_id))
      \div Cardinality(InRegion(ocr_nodes, region_id))

\* create_ocr_nodes: an OCRText node for each item, then an OCRRegion node for
\* each region
create_ocr_nodes(ocr_enrichment_data) ==
    LET ocr_nodes == ocr_enrichment_data.ocr_nodes
        groups == RegionGroups(ocr_nodes, 1, <<>>)
    IN  [i \in 1..Len(ocr_nodes) |->
            [label |-> "OCRText", uid |-> _new_uid("ocr_text", i),
             props |-> ("text" :> Str(ocr_nodes[i].text))
                         @@ ("confidence" :> Num(ocr_nodes[i].confidence))
                         @@ ("region_id" :> Str(ocr_nodes[i].region_id))
                         @@ ("region_type" :> Str(""))
                         @@ ("processing_engine" :> Str(""))
                         @@ ("extracted_info" :> Str("{}"))]]
        \o [i \in 1..Len(groups) |->
            [label |-> "OCRRegion", uid |-> _new_uid("ocr_region", i),
             props |-> ("region_id" :> Str(groups[i]))
                         @@ ("region_type" :> Str(""))
                         @@ ("text_count" :> Num(Cardinality(InRegion(ocr_nodes, groups[i]))))
                         @@ ("average_confidence" :> Num(AvgConfidence(ocr_nodes, groups[i])))]]

\* a relationship that carries properties
RelWith(rel, properties) ==
    [start_label |-> rel.start_label, start_uid |-> rel.start_uid, type |-> rel.type,
     end_label |-> rel.end_label, end_uid |-> rel.end_uid, properties |-> properties]

\* the index of the first ocr_node whose text is the discovery's ocr_text, or 0
FirstWithText(ocr_nodes, text) ==
    IF \E j \in 1..Len(ocr_nodes) : ocr_nodes[j].text = text
      THEN CHOOSE j \in 1..Len(ocr_nodes) :
              /\ ocr_nodes[j].text = text
              /\ \A k \in 1..(j - 1) : ocr_nodes[k].text # text
      ELSE 0

\* mutant: the OCRRegion -> OCRText relationships are left out
OcrRelationshipsMutant(ocr_enrichment_data) ==
    LET groups == RegionGroups(ocr_enrichment_data.ocr_nodes, 1, <<>>)
    IN  [i \in 1..Len(groups) |->
            Rel("Floor", floor_uid, "HAS_OCR_REGION", "OCRRegion", _new_uid("ocr_region", i))]

\* create_ocr_relationships: Floor -> OCRRegion, OCRRegion -> OCRText, then the
\* VALIDATES and DISCOVERS relationships from an OCRText to the Floor
create_ocr_relationships(ocr_enrichment_data) ==
    LET ocr_nodes == ocr_enrichment_data.ocr_nodes
        groups == RegionGroups(ocr_nodes, 1, <<>>)
        region_to_uid(region_id) ==
            _new_uid("ocr_region", CHOOSE i \in 1..Len(groups) : groups[i] = region_id)
        validations == ocr_enrichment_data.validation_relationships
        discoveries == SelectSeq(ocr_enrichment_data.discovery_relationships,
                                 LAMBDA d : FirstWithText(ocr_nodes, d.ocr_text) # 0)
    IN  [i \in 1..Len(groups) |->
            Rel("Floor", floor_uid, "HAS_OCR_REGION", "OCRRegion", _new_uid("ocr_region", i))]
        \o [i \in 1..Len(ocr_nodes) |->
            Rel("OCRRegion", region_to_uid(ocr_nodes[i].region_id), "CONTAINS_TEXT",
                "OCRText", _new_uid("ocr_text", i))]
        \o [i \in 1..Len(validations) |->
            RelWith(Rel("OCRText", _new_uid("ocr_text", i), "VALIDATES", "Floor", floor_uid),
                    ("confidence" :> Num(validations[i].confidence))
                      @@ ("correlation_type" :> Str(validations[i].correlation_type))
                      @@ ("cad_text" :> Str(validations[i].cad_text)))]
        \o [i \in 1..Len(discoveries) |->
            RelWith(Rel("OCRText",
                        _new_uid("ocr_text", FirstWithText(ocr_nodes, discoveries[i].ocr_text)),
                        "DISCOVERS", "Floor", floor_uid),
                    ("confidence" :> Num(discoveries[i].confidence))
                      @@ ("region_type" :> Str(discoveries[i].region_type))
                      @@ ("context" :> Str("{}")))]

\* enhance_graph_with_ocr
enhance_graph_with_ocr(base_graph, ocr_enrichment_data) ==
    [nodes |-> base_graph.nodes \o create_ocr_nodes(ocr_enrichment_data),
     relationships |-> base_graph.relationships
                         \o create_ocr_relationships(ocr_enrichment_data)]

\* ------------------------------------------------------------- the load
EmptyPayload == [nodes |-> <<>>, relationships |-> <<>>]
EmptyGraph == [nodes |-> <<>>, rels |-> {}]
NoProps == [k \in {} |-> Null]

\* _merge_nodes_batch, the loop over the node's items: a value {x, y, z} becomes
\* the three properties key_x, key_y, key_z; the dict {} is not Neo4j-safe and
\* _force_neo4j_safe_value makes it the string "{}"; every other value of these
\* payloads is Neo4j-safe (a primitive or an array of numbers) and is kept
FlatPairs(props) ==
    UNION {IF props[k].kind = "dict"
             THEN {<<k \o "_x", Num(props[k].val[1])>>,
                   <<k \o "_y", Num(props[k].val[2])>>,
                   <<k \o "_z", Num(props[k].val[3])>>}
             ELSE IF props[k].kind = "map"
             THEN {<<k, Str("{}")>>}
             ELSE {<<k, props[k]>>} : k \in DOMAIN props}

flat_props(props) ==
    LET pairs == FlatPairs(props)
    IN  [k \in {pr[1] : pr \in pairs} |-> (CHOOSE pr \in pairs : pr[1] = k)[2]]

\* the rows of `UNWIND $nodes AS node WITH DISTINCT node.uid AS uid, node.props
\* AS props` for one label: label and uid were popped from the props
RECURSIVE DistinctRows(_, _, _, _)
DistinctRows(batch, label, i, rows) ==
    IF i > Len(batch) THEN rows
    ELSE LET row == [uid |-> batch[i].uid, props |-> flat_props(batch[i].props)]
         IN  DistinctRows(batch, label, i + 1,
                 IF batch[i].label = label /\ \A k \in 1..Len(rows) : rows[k] # row
                   THEN Append(rows, row) ELSE rows)

\* nodes_by_label: the labels of the batch in the order of their first node
RECURSIVE LabelsOf(_, _, _)
LabelsOf(batch, i, labels) ==
    IF i > Len(batch) THEN labels
    ELSE LabelsOf(batch, i + 1,
                  IF \E k \in 1..Len(labels) : labels[k] = batch[i].label
                    THEN labels ELSE Append(labels, batch[i].label))

\* the element ids of the nodes `(n:label {uid: uid})` matches
Match(nodes, label, uid) ==
    {id \in 1..Len(nodes) : nodes[id].label = label /\ nodes[id].uid = uid}

\* MERGE (n:label {uid: uid}): the matching nodes, or a new node
MergeNode(nodes, label, uid, by) ==
    IF Match(nodes, label, uid) = {}
      THEN Append(nodes, [label |-> label, uid |-> uid, props |-> NoProps, by |-> by])
      ELSE nodes

\* a property set to null is not stored
Stored(props) == [k \in {q \in DOMAIN props : props[q].kind # "null"} |-> props[k]]

\* SET n = props on the nodes `ids`: every property of the node is replaced by
\* the map, and the map has no uid (it was popped from the node)
SetProps(nodes, ids, props) ==
    [id \in 1..Len(nodes) |->
        IF id \in ids THEN [nodes[id] EXCEPT !.uid = NoUid, !.props = Stored(props)]
        ELSE nodes[id]]

\* the query of one label run row by row: MERGE, then SET, for each row in turn
RECURSIVE RowByRow(_, _, _, _, _)
RowByRow(nodes, label, rows, k, by) ==
    IF k > Len(rows) THEN nodes
    ELSE LET merged == MergeNode(nodes, label, rows[k].uid, by)
         IN  RowByRow(SetProps(merged, Match(merged, label, rows[k].uid), rows[k].props),
                      label, rows, k + 1, by)

\* the same query planned with an Eager between MERGE and SET: every row is
\* merged before the first SET, and each SET acts on the nodes its row matched
RECURSIVE MergeAll(_, _, _, _, _)
MergeAll(nodes, label, rows, k, by) ==
    IF k > Len(rows) THEN nodes
    ELSE MergeAll(MergeNode(nodes, label, rows[k].uid, by), label, rows, k + 1, by)

RECURSIVE SetAll(_, _, _, _, _)
SetAll(nodes, merged, label, rows, k) ==
    IF k > Len(rows) THEN nodes
    ELSE SetAll(SetProps(nodes, Match(merged, label, rows[k].uid), rows[k].props),
                merged, label, rows, k + 1)

UnwindMerge(nodes, label, rows, eager, by) ==
    IF eager
      THEN LET merged == MergeAll(nodes, label, rows, 1, by)
           IN  SetAll(merged, merged, label, rows, 1)
      ELSE RowByRow(nodes, label, rows, 1, by)

\* _merge_nodes_batch: one query for each label of the batch
RECURSIVE MergeLabels(_, _, _, _, _, _)
MergeLabels(nodes, batch, labels, k, eager, by) ==
    IF k > Len(labels) THEN nodes
    ELSE MergeLabels(UnwindMerge(nodes, labels[k],
                                 DistinctRows(batch, labels[k], 1, <<>>), eager, by),
                     batch, labels, k + 1, eager, by)

_merge_nodes_batch(g, batch, eager, by) ==
    [g EXCEPT !.nodes = MergeLabels(@, batch, LabelsOf(batch, 1, <<>>), 1, eager, by)]

\* _sanitize_data_types on a relationship of the payload, as load_to_neo4j
\* applies it: a relationship whose "properties" is a dict of more than one key
\* is a complex nested dict (it has no label and uid), and _flatten_complex_dict
\* replaces the key "properties" by one key properties_<k> for each property
_sanitize_data_types(rel) ==
    IF "properties" \in DOMAIN rel /\ Cardinality(DOMAIN rel.properties) > 1
      THEN [k \in {"properties_" \o q : q \in DOMAIN rel.properties} |->
               rel.properties[CHOOSE q \in DOMAIN rel.properties : k = "properties_" \o q]]
             @@ [k \in DOMAIN rel \ {"properties"} |-> rel[k]]
      ELSE rel

\* load_to_neo4j: relationships = [_sanitize_data_types(rel) for rel in ...]
SanitizedRels(relationships) ==
    [i \in 1..Len(relationships) |-> _sanitize_data_types(relationships[i])]

\* _merge_relationships_batch, the loop that prepares rels_data: the props of a
\* row are those under the key "properties" of the relationship, or {}
rel_data(rel) ==
    [start_label |-> rel["start_label"], start_uid |-> rel["start_uid"],
     type |-> rel["type"], end_label |-> rel["end_label"], end_uid |-> rel["end_uid"],
     props |-> IF "properties" \in DOMAIN rel /\ DOMAIN rel["properties"] # {}
                 THEN rel["properties"] ELSE NoProps]

\* rels_by_pattern: the rows of the batch grouped by (start_label, type,
\* end_label), the groups in the order of their first row
PatternOf(row) == <<row.start_label, row.type, row.end_label>>
RECURSIVE PatternsOf(_, _, _)
PatternsOf(rows, i, patterns) ==
    IF i > Len(rows) THEN patterns
    ELSE PatternsOf(rows, i + 1,
                    IF \E k \in 1..Len(patterns) : patterns[k] = PatternOf(rows[i])
                      THEN patterns ELSE Append(patterns, PatternOf(rows[i])))

\* one row of the query: MATCH both ends by label and uid, MERGE the
\* relationship between every pair found, SET r += rel.props
MergeRelRow(nodes, rels, row) ==
    LET pairs == Match(nodes, row.start_label, row.start_uid)
                   \X Match(nodes, row.end_label, row.end_uid)
        found == {r \in rels : r.type = row.type /\ <<r.start, r.end>> \in pairs}
    IN  (rels \ found)
          \cup {[r EXCEPT !.props = row.props @@ @] : r \in found}
          \cup {[start |-> pr[1], type |-> row.type, end |-> pr[2], props |-> row.props] :
                   pr \in {q \in pairs : \A r \in found : <<r.start, r.end>> # q}}

RECURSIVE MergeRelRows(_, _, _, _)
MergeRelRows(nodes, rels, rows, k) ==
    IF k > Len(rows) THEN rels
    ELSE MergeRelRows(nodes, MergeRelRow(nodes, rels, rows[k]), rows, k + 1)

RECURSIVE MergePatterns(_, _, _, _, _)
MergePatterns(nodes, rels, rows, patterns, k) ==
    IF k > Len(patterns) THEN rels
    ELSE MergePatterns(nodes,
                       MergeRelRows(nodes, rels,
                                    SelectSeq(rows, LAMBDA row : PatternOf(row) = patterns[k]),
                                    1),
                       rows, patterns, k + 1)

\* _merge_relationships_batch: one query for each pattern of the batch
_merge_relationships_batch(g, batch) ==
    LET rels_data == [i \in 1..Len(batch) |-> rel_data(batch[i])]
    IN  [g EXCEPT !.rels = MergePatterns(g.nodes, @, rels_data,
                                         PatternsOf(rels_data, 1, <<>>), 1)]

\* mutant: the clearing query deletes nothing
ClearNothingMutant(g) == g

\* _clear_neo4j_traditional: MATCH (n) DETACH DELETE n
_clear_neo4j_traditional(g) == EmptyGraph

\* Neo4jMonitor.safe_clear_data (module neo4j_monitor), when it reports success:
\* all prior data is removed
safe_clear_data(g) == EmptyGraph

\* mutant: a batch reaches one item into the next batch
SliceMutant(items, i) ==
    SubSeq(items, i + 1,
           IF i + BatchSize + 1 < Len(items) THEN i + BatchSize + 1 ELSE Len(items))

\* batch = items[i:i + batch_size]
Slice(items, i) ==
    SubSeq(items, i + 1, IF i + BatchSize < Len(items) THEN i + BatchSize ELSE Len(items))

NoFirst == [data |-> <<>>, path |-> "none", chunk_size |-> 0, graph_payload |-> EmptyPayload,
            graph |-> EmptyGraph]

InitGraph ==
    /\ gpc = "idle"
    /\ data = <<>>
    /\ path = "none"
    /\ chunk_size = 0
    /\ consumed = 0
    /\ chunk_count = 0
    /\ clock_ms = ClockBase
    /\ graph_payload = EmptyPayload
    /\ gbatch = 0
    /\ graph = EmptyGraph
    /\ run = 0
    /\ first = NoFirst
    /\ written = <<>>

\* the artifacts of a second ingest: the same one, a smaller one, a single record
NextArtifacts ==
    IF run = 0 THEN Artifacts
    ELSE {data} \cup {SubSeq(data, 1, Len(data) - 1) : x \in {y \in {1} : Len(data) > 0}}
           \cup {<<e>> : e \in {LineXyz, ScaleInfo}}

\* upload_file hands the artifact d to one of the two transformations
NewArtifact(d, p, c) ==
    /\ gpc \in {"idle", "loaded"}
    /\ run < MaxRuns
    /\ run' = run + 1
    /\ first' = IF run = 1
                  THEN [data |-> data, path |-> path, chunk_size |-> chunk_size,
                        graph_payload |-> graph_payload, graph |-> graph]
                  ELSE first
    /\ data' = d
    /\ path' = p
    /\ chunk_size' = IF p = "streaming" THEN c ELSE 0
    /\ consumed' = 0
    /\ chunk_count' = 0
    /\ graph_payload' = EmptyPayload
    /\ gbatch' = 0
    /\ gpc' = "transform"
    /\ UNCHANGED <<clock_ms, graph, written, jobVars, ingestVars, uploadVars>>

\* transform_to_graph
TransformToGraph ==
    /\ gpc = "transform"
    /\ path = "whole"
    /\ graph_payload' = transform_to_graph(data)
    /\ consumed' = Len(data)
    /\ gpc' = "load"
    /\ UNCHANGED <<data, path, chunk_size, chunk_count, clock_ms, gbatch, graph, run, first,
                   written, jobVars, ingestVars, uploadVars>>

\* transform_to_graph_streaming up to its loop: the Building and Floor nodes
StreamingBegin ==
    /\ gpc = "transform"
    /\ path = "streaming"
    /\ graph_payload' = [nodes |-> <<BuildingNode, FloorNode>>, relationships |-> <<HasFloor>>]
    /\ gpc' = "streaming"
    /\ UNCHANGED <<data, path, chunk_size, consumed, chunk_count, clock_ms, gbatch, graph, run,
                   first, written,
                   jobVars, ingestVars, uploadVars>>

\* json_chunks_generator: the next chunk_size records, or the records left
NextChunk(json_file, from, size) ==
    SubSeq(json_file, from + 1,
           IF from + size < Len(json_file) THEN from + size ELSE Len(json_file))

\* one turn of the loop of transform_to_graph_streaming: the generator yields a
\* chunk, transform_chunk_to_graph reads the clock (t) and transforms it
StreamChunk(t) ==
    /\ gpc = "streaming"
    /\ consumed < Len(data)
    /\ chunk_count < STREAM_MAX_CHUNKS
    /\ t >= clock_ms
    /\ t <= ClockBase + MaxClock
    /\ LET entities_chunk == NextChunk(data, consumed, chunk_size)
           chunk_graph == transform_chunk_to_graph(entities_chunk, t)
       IN  /\ graph_payload' =
                [nodes |-> graph_payload.nodes \o chunk_graph.nodes,
                 relationships |-> graph_payload.relationships \o chunk_graph.relationships]
           /\ consumed' = consumed + Len(entities_chunk)
    /\ chunk_count' = chunk_count + 1
    /\ clock_ms' = t
    /\ UNCHANGED <<gpc, data, path, chunk_size, gbatch, graph, run, first, written,
                   jobVars, ingestVars, uploadVars>>

\* the loop ends: the generator is exhausted, or `chunk_count >= 10: break`
StreamingEnd ==
    /\ gpc = "streaming"
    /\ consumed >= Len(data) \/ chunk_count >= STREAM_MAX_CHUNKS
    /\ gpc' = "load"
    /\ UNCHANGED <<data, path, chunk_size, consumed, chunk_count, clock_ms, graph_payload,
                   gbatch, graph, run, first, written,
                   jobVars, ingestVars, uploadVars>>

\* upload_file: the payload of the transformation is enriched with OCR data
\* (`if ocr_enrichment_data["ocr_nodes"]`) before it is loaded
EnhanceWithOcr(ocr_enrichment_data) ==
    /\ gpc = "load"
    /\ ocr_enrichment_data.ocr_nodes # <<>>
    /\ \A i \in 1..Len(graph_payload.nodes) :
          graph_payload.nodes[i].label \notin {"OCRText", "OCRRegion"}
    /\ graph_payload' = enhance_graph_with_ocr(graph_payload, ocr_enrichment_data)
    /\ UNCHANGED <<gpc, data, path, chunk_size, consumed, chunk_count, clock_ms, gbatch, graph,
                   run, first, written,
                   jobVars, ingestVars, uploadVars>>

\* load_to_neo4j: clear_neo4j_data before the driver of the load is fetched; the
\* data is cleared by the monitor, or by _clear_neo4j_traditional when the
\* monitor is missing or reports a failure
LoadClear(monitor) ==
    /\ gpc = "load"
    /\ graph' = IF monitor THEN safe_clear_data(graph) ELSE _clear_neo4j_traditional(graph)
    /\ gbatch' = 0
    /\ written' = <<>>
    /\ gpc' = "nodes"
    /\ UNCHANGED <<data, path, chunk_size, consumed, chunk_count, clock_ms, graph_payload,
                   run, first, jobVars, ingestVars, uploadVars>>

\* one turn of the node loop; `eager` is the plan the store chose for the query
LoadNodes(eager) ==
    /\ gpc = "nodes"
    /\ gbatch < Len(graph_payload.nodes)
    /\ graph' = _merge_nodes_batch(graph, Slice(graph_payload.nodes, gbatch), eager, run)
    /\ written' = Append(written, [kind |-> "nodes", batch |-> Slice(graph_payload.nodes, gbatch)])
    /\ gbatch' = gbatch + BatchSize
    /\ UNCHANGED <<gpc, data, path, chunk_size, consumed, chunk_count, clock_ms, graph_payload,
                   run, first, jobVars, ingestVars, uploadVars>>

LoadNodesEnd ==
    /\ gpc = "nodes"
    /\ gbatch >= Len(graph_payload.nodes)
    /\ gbatch' = 0
    /\ gpc' = "rels"
    /\ UNCHANGED <<data, path, chunk_size, consumed, chunk_count, clock_ms, graph_payload,
                   graph, run, first, written,
                   jobVars, ingestVars, uploadVars>>

\* one turn of the relationship loop
LoadRels ==
    /\ gpc = "rels"
    /\ gbatch < Len(graph_payload.relationships)
    /\ graph' = _merge_relationships_batch(
                    graph, Slice(SanitizedRels(graph_payload.relationships), gbatch))
    /\ written' = Append(written, [kind |-> "rels",
                                   batch |-> Slice(SanitizedRels(graph_payload.relationships),
                                                   gbatch)])
    /\ gbatch' = gbatch + BatchSize
    /\ UNCHANGED <<gpc, data, path, chunk_size, consumed, chunk_count, clock_ms, graph_payload,
                   run, first, jobVars, ingestVars, uploadVars>>

\* the write of the last batch is run again on the store that holds its
\* effects: the transaction function is replayed after its commit was not
\* acknowledged
ReplayNodes(eager) ==
    /\ gpc = "nodes"
    /\ gbatch > 0
    /\ Len(graph.nodes) < gbatch + MaxReplays * BatchSize
    /\ graph' = _merge_nodes_batch(graph, Slice(graph_payload.nodes, gbatch - BatchSize),
                                   eager, run)
    /\ UNCHANGED <<gpc, data, path, chunk_size, consumed, chunk_count, clock_ms, graph_payload,
                   gbatch, run, first, written,
                   jobVars, ingestVars, uploadVars>>

ReplayRels ==
    /\ gpc = "rels"
    /\ gbatch > 0
    /\ graph' = _merge_relationships_batch(
                    graph, Slice(SanitizedRels(graph_payload.relationships),
                                 gbatch - BatchSize))
    /\ UNCHANGED <<gpc, data, path, chunk_size, consumed, chunk_count, clock_ms, graph_payload,
                   gbatch, run, first, written,
                   jobVars, ingestVars, uploadVars>>

LoadRelsEnd ==
    /\ gpc = "rels"
    /\ gbatch >= Len(graph_payload.relationships)
    /\ gpc' = "loaded"
    /\ UNCHANGED <<data, path, chunk_size, consumed, chunk_count, clock_ms, graph_payload,
                   gbatch, graph, run, first, written,
                   jobVars, ingestVars, uploadVars>>


\* ---------------------------------------------- the ingest: load with retries
\* execute_with_official_retry_pattern(max_retries=3)
max_retries == 3
\* upload_file: max_retries = 3 of the load loop
UploadMaxRetries == 3
\* the spec's BATCH_RETRY_MAX is this max_retries
BATCH_RETRY_MAX == max_retries

NodesOf(p) == 1..p.nodes
RelsOf(p) == 1..p.rels
Payloads == [nodes : 1..MaxNodes, rels : 0..MaxRels]
EmptyStore == [nodes |-> {}, rels |-> {}]
\* what session.execute_write does on one attempt
Outcomes == {"ok", "TransientError", "ServiceUnavailable", "AuthError", "Exception"}

InitIngest ==
    /\ ipc = "idle"
    /\ payload = [nodes |-> 1, rels |-> 0]
    /\ attempt = 0
    /\ retry = 0
    /\ batch_i = 0
    /\ load_error = None
    /\ store = EmptyStore
    /\ driver = "none"
    /\ response = None
    /\ ingests = 0
    /\ lead = 0
    /\ leading = TRUE
    /\ clean = TRUE

\* ------------------------------------------------------------ upload_file
\* the states of the staged file
ABSENT == "absent"
PARTIAL == "partial"
COMPLETE == "complete"

\* the entity counts of the uploads: around the two thresholds, and small ones
EntityCounts ==
    (0..CountMargin)
      \cup ((STREAMING_ENTITY_THRESHOLD - CountMargin)..(STREAMING_ENTITY_THRESHOLD + CountMargin))
      \cup ((SMALL_CHUNK_THRESHOLD - CountMargin)..(SMALL_CHUNK_THRESHOLD + CountMargin))

InitUpload ==
    /\ upc = "idle"
    /\ staged = ABSENT
    /\ entities_count = 0
    /\ transformation = "none"
    /\ up_chunk_size = 0
    /\ up_response = None
    /\ failed_at = "none"
    /\ alarm = "off"
    /\ payload_by = "none"

Init == InitJobs /\ InitIngest /\ InitGraph /\ InitUpload

\* upload_file has validated name, extension and size of an upload whose
\* artifact will hold n entity records
Receive(n) ==
    /\ upc = "idle"
    /\ entities_count' = n
    /\ upc' = "save"
    /\ UNCHANGED <<staged, transformation, up_chunk_size, up_response, failed_at,
                   timerVars,
                   jobVars, ingestVars, graphVars>>

\* the upload is written to uploads/<filename>
SaveFile ==
    /\ upc = "save"
    /\ staged' = COMPLETE
    /\ upc' = "extract"
    /\ UNCHANGED <<entities_count, transformation, up_chunk_size, up_response, failed_at,
                   timerVars,
                   jobVars, ingestVars, graphVars>>

\* open or write raises: HTTP 500 "Failed to save file"; before is what the
\* failed call left of the file (open raised: nothing; write raised: a part)
SaveFails(left) ==
    /\ upc = "save"
    /\ staged' = left
    /\ up_response' = [status |-> 500, detail |-> "Failed to save file"]
    /\ failed_at' = "save"
    /\ upc' = "done"
    /\ UNCHANGED <<entities_count, transformation, up_chunk_size, timerVars,
                   jobVars, ingestVars, graphVars>>

\* a step inside the try block of upload_file returns normally
StepDone(from, to) ==
    /\ upc = from
    /\ upc' = to
    /\ UNCHANGED <<staged, entities_count, transformation, up_chunk_size, up_response,
                   failed_at, timerVars,
                   jobVars, ingestVars, graphVars>>

\* a step inside the try block raises: the handler unlinks the staged file if it
\* exists and raises HTTP 500 "Processing failed"
StepRaises(from) ==
    /\ upc = from
    /\ staged' = ABSENT
    /\ up_response' = [status |-> 500, detail |-> "Processing failed"]
    /\ failed_at' = from
    /\ upc' = "done"
    /\ UNCHANGED <<entities_count, transformation, up_chunk_size, timerVars,
                   jobVars, ingestVars, graphVars>>

\* enhanced_extract_cad_data / extract_cad_data
Extract == StepDone("extract", "decode")
ExtractFails == StepRaises("extract")

\* the artifact is found and parsed with one of the encodings
Decode == StepDone("decode", "choose")
DecodeFails == StepRaises("decode")

\* mutant: the threshold itself takes the streaming path
UseStreamingMutant(n) == n >= STREAMING_ENTITY_THRESHOLD

\* `if entities_count > 5000`
UseStreaming(n) == n > STREAMING_ENTITY_THRESHOLD

\* `chunk_size = 2000 if entities_count > 20000 else 3000`
ChunkSizeFor(n) == IF n > SMALL_CHUNK_THRESHOLD THEN SMALL_CHUNK ELSE LARGE_CHUNK

\* the transformation is chosen: streaming for a large artifact, else the
\* enhanced one when the extraction gave visual nodes, else transform_to_graph
ChooseTransformation(visual_nodes) ==
    /\ upc = "choose"
    /\ IF UseStreaming(entities_count)
         THEN /\ transformation' = "streaming"
              /\ up_chunk_size' = ChunkSizeFor(entities_count)
              /\ alarm' = "armed"
         ELSE /\ transformation' = IF visual_nodes THEN "enhanced" ELSE "whole"
              /\ UNCHANGED <<up_chunk_size, alarm>>
    /\ upc' = "transform"
    /\ UNCHANGED <<staged, entities_count, up_response, failed_at, payload_by,
                   jobVars, ingestVars, graphVars>>

\* the chosen transformation returns the payload; after the streaming one the
\* timer is cancelled (`signal.alarm(0)`)
Transform ==
    /\ upc = "transform"
    /\ payload_by' = transformation
    /\ alarm' = "off"
    /\ upc' = "transformed"
    /\ UNCHANGED <<staged, entities_count, transformation, up_chunk_size, up_response,
                   failed_at, jobVars, ingestVars, graphVars>>

\* the chosen transformation raises something else than the TimeoutError of
\* the timer; nothing cancels the timer on that way out
TransformFails == StepRaises("transform")

\* mutant: the TimeoutError of the timer is not caught by upload_file
TransformTimeoutMutant ==
    /\ upc = "transform"
    /\ alarm = "armed"
    /\ alarm' = "fired"
    /\ staged' = ABSENT
    /\ up_response' = [status |-> 500, detail |-> "Processing failed"]
    /\ failed_at' = "transform"
    /\ upc' = "done"
    /\ UNCHANGED <<entities_count, transformation, up_chunk_size, payload_by,
                   jobVars, ingestVars, graphVars>>

\* the timer set for the streaming transformation goes off after 120 s: its
\* handler raises TimeoutError inside transform_to_graph_streaming, which passes
\* it on, and upload_file catches it and falls back to transform_to_graph
TransformTimeout ==
    /\ upc = "transform"
    /\ alarm = "armed"
    /\ alarm' = "fired"
    /\ upc' = "fallback"
    /\ UNCHANGED <<staged, entities_count, transformation, up_chunk_size, up_response,
                   failed_at, payload_by, jobVars, ingestVars, graphVars>>

\* transform_to_graph returns in the handler of the TimeoutError, then
\* `signal.alarm(0)`
Fallback ==
    /\ upc = "fallback"
    /\ payload_by' = "whole"
    /\ alarm' = "off"
    /\ upc' = "transformed"
    /\ UNCHANGED <<staged, entities_count, transformation, up_chunk_size, up_response,
                   failed_at, jobVars, ingestVars, graphVars>>

\* transform_to_graph raises in the handler of the TimeoutError
FallbackFails == StepRaises("fallback")

\* upload_file reaches the load loop with the payload of the file
UploadFile(p) ==
    /\ ipc \in {"idle", "done"}
    /\ ingests < MaxIngests
    /\ ingests' = ingests + 1
    /\ payload' = p
    /\ attempt' = 0
    /\ ipc' = "load"
    /\ response' = None
    /\ lead' = 0
    /\ leading' = TRUE
    /\ clean' = TRUE
    /\ UNCHANGED <<retry, batch_i, load_error, store, driver, jobVars, graphVars, uploadVars>>

\* Neo4jDriverManager.get_driver with an unchanged configuration: a driver is
\* created only when there is none; a closed one is handed out again
get_driver(d) == IF d = "none" THEN "open" ELSE d

\* load_to_neo4j: clear_neo4j_data, then the driver is fetched for the load.
\* Without neo4j_monitor the clearing is _clear_neo4j_traditional, which closes
\* the driver it was handed.
ClearData(traditional) ==
    /\ ipc = "load"
    /\ store' = EmptyStore
    /\ driver' = IF traditional THEN "closed" ELSE get_driver(driver)
    /\ batch_i' = 0
    /\ retry' = 0
    /\ load_error' = None
    /\ ipc' = "nodes"
    /\ UNCHANGED <<payload, attempt, response, ingests, lead, leading, clean, jobVars, graphVars, uploadVars>>

\* clear_neo4j_data raises: load_to_neo4j has not entered its try block
ClearRaises ==
    /\ ipc = "load"
    /\ load_error' = "Exception"
    /\ clean' = FALSE
    /\ ipc' = "load_failed"
    /\ UNCHANGED <<payload, attempt, retry, batch_i, store, driver, response, ingests,
                   lead, leading, jobVars, graphVars, uploadVars>>

\* batch = items[i:i + batch_size]
Batch(items, i) == {x \in items : i < x /\ x <= i + BatchSize}

\* mutant: one attempt more before the transient error is raised again
RetriesExhaustedMutant(a) == a = max_retries

\* the test `attempt == max_retries - 1` of the TransientError handler
RetriesExhausted(a) == a = max_retries - 1

\* one attempt of execute_with_official_retry_pattern on the batch at batch_i:
\* `ipc` says which of the two batch loops of load_to_neo4j is running
WriteBatch(kind, out) ==
    /\ ipc = kind
    /\ batch_i < (IF kind = "nodes" THEN payload.nodes ELSE payload.rels)
    /\ CASE out = "ok" ->
              /\ store' = IF kind = "nodes"
                            THEN [store EXCEPT !.nodes = @ \cup Batch(NodesOf(payload), batch_i)]
                            ELSE [store EXCEPT !.rels = @ \cup Batch(RelsOf(payload), batch_i)]
              /\ batch_i' = batch_i + BatchSize
              /\ retry' = 0
              /\ leading' = FALSE
              /\ UNCHANGED <<ipc, load_error, lead, clean>>
         [] out = "TransientError" ->
              /\ IF RetriesExhausted(retry)
                   THEN /\ load_error' = out
                        /\ ipc' = "finally"
                        /\ retry' = 0
                   ELSE /\ retry' = retry + 1
                        /\ UNCHANGED <<ipc, load_error>>
              /\ IF leading
                   THEN lead' = lead + 1 /\ UNCHANGED clean
                   ELSE clean' = FALSE /\ UNCHANGED lead
              /\ UNCHANGED <<store, batch_i, leading>>
         [] OTHER ->
              /\ load_error' = out
              /\ ipc' = "finally"
              /\ retry' = 0
              /\ clean' = FALSE
              /\ UNCHANGED <<store, batch_i, lead, leading>>
    /\ UNCHANGED <<payload, attempt, driver, response, ingests, jobVars, graphVars, uploadVars>>

\* the node loop of load_to_neo4j is over: the relationship loop starts
NodesDone ==
    /\ ipc = "nodes"
    /\ batch_i >= payload.nodes
    /\ batch_i' = 0
    /\ ipc' = "rels"
    /\ UNCHANGED <<payload, attempt, retry, load_error, store, driver, response, ingests,
                   lead, leading, clean, jobVars, graphVars, uploadVars>>

RelsDone ==
    /\ ipc = "rels"
    /\ batch_i >= payload.rels
    /\ ipc' = "finally"
    /\ UNCHANGED <<payload, attempt, retry, batch_i, load_error, store, driver, response,
                   ingests, lead, leading, clean, jobVars, graphVars, uploadVars>>

\* the finally clause of load_to_neo4j: driver.close()
LoadFinally ==
    /\ ipc = "finally"
    /\ driver' = "closed"
    /\ ipc' = IF load_error = None THEN "load_ok" ELSE "load_failed"
    /\ UNCHANGED <<payload, attempt, retry, batch_i, load_error, store, response, ingests,
                   lead, leading, clean, jobVars, graphVars, uploadVars>>

\* the test `attempt == max_retries - 1` of the load loop of upload_file
LastLoad(a) == a = UploadMaxRetries - 1

\* upload_file: load_to_neo4j raised; the load is tried again or the error
\* is returned as HTTP 500
LoadFailed ==
    /\ ipc = "load_failed"
    /\ IF LastLoad(attempt)
         THEN /\ response' = [status |-> 500, detail |-> load_error]
              /\ ipc' = "done"
              /\ UNCHANGED attempt
         ELSE /\ attempt' = attempt + 1
              /\ ipc' = "load"
              /\ UNCHANGED response
    /\ UNCHANGED <<payload, retry, batch_i, load_error, store, driver, ingests,
                   lead, leading, clean, jobVars, graphVars, uploadVars>>

\* upload_file: load_to_neo4j returned; the counts are returned
LoadSucceeded ==
    /\ ipc = "load_ok"
    /\ response' = [status |-> 200, detail |-> None]
    /\ ipc' = "done"
    /\ UNCHANGED <<payload, attempt, retry, batch_i, load_error, store, driver, ingests,
                   lead, leading, clean, jobVars, graphVars, uploadVars>>

NextIngest ==
    \/ \E p \in Payloads : UploadFile(p)
    \/ \E t \in BOOLEAN : ClearData(t)
    \/ ClearRaises
    \/ \E k \in {"nodes", "rels"}, out \in Outcomes : WriteBatch(k, out)
    \/ NodesDone
    \/ RelsDone
    \/ LoadFinally
    \/ LoadFailed
    \/ LoadSucceeded

SpecIngest == Init /\ [][NextIngest]_vars

\* The job manager with its writers: submit_job, cancel_job, cleanup_old_jobs, the
\* workers and the clock.  The readers get_job_status and get_all_jobs change
\* nothing the writers read, and are left to SpecStatus.
Next ==
    \/ Tick
    \/ \E c \in Clients : SubmitJob(c)
    \/ \E c \in Clients : SubmitInsert(c)
    \/ \E c \in Clients : SubmitPut(c)
    \/ \E c \in Clients, j \in JobIds : CancelJob(c, j)
    \/ \E c \in Clients : CancelSet(c)
    \/ \E c \in Clients : CleanupOldJobs(c)
    \/ \E c \in Clients, h \in AgeHours : CleanupLocked(c, h)
    \/ \E w \in ActiveWorkers : Worker(w)

Spec == Init /\ [][Next]_vars

\* The job manager with its readers, at one reading of the clock.
NextStatus ==
    \/ \E c \in Clients : SubmitJob(c)
    \/ \E c \in Clients : SubmitInsert(c)
    \/ \E c \in Clients : SubmitPut(c)
    \/ \E c \in Clients, j \in JobIds : CancelJob(c, j)
    \/ \E c \in Clients : CancelSet(c)
    \/ \E c \in Clients, j \in JobIds : GetJobStatus(c, j)
    \/ \E c \in Clients : GetJobStatusDict(c)
    \/ \E c \in Clients : GetAllJobs(c)
    \/ \E w \in ActiveWorkers : Worker(w)

SpecStatus == Init /\ [][NextStatus]_vars

\* The job manager with all its worker threads running: submit_job,
\* cancel_job and the workers.
NextWorkers ==
    \/ \E c \in Clients : SubmitJob(c)
    \/ \E c \in Clients : SubmitInsert(c)
    \/ \E c \in Clients : SubmitPut(c)
    \/ \E c \in Clients, j \in JobIds : CancelJob(c, j)
    \/ \E c \in Clients : CancelSet(c)
    \/ \E w \in Workers : Worker(w)

SpecWorkers == Init /\ [][NextWorkers]_vars

\* The job manager with the worker threads scheduled fairly: a worker that can
\* take a step (a job is on the queue, or the call it is in returns or raises)
\* eventually takes one. Nothing is assumed about the clients.
NextLive ==
    \/ \E c \in Clients : SubmitJob(c)
    \/ \E c \in Clients : SubmitInsert(c)
    \/ \E c \in Clients : SubmitPut(c)
    \/ \E c \in Clients, j \in JobIds : CancelJob(c, j)
    \/ \E c \in Clients : CancelSet(c)
    \/ \E w \in ActiveWorkers : Worker(w)

\* submit_job called from two threads at once, cancel_job, and the workers
NextSubmit ==
    \/ \E c \in AllClients : SubmitJob(c)
    \/ \E c \in AllClients : SubmitInsert(c)
    \/ \E c \in AllClients : SubmitPut(c)
    \/ \E c \in Clients, j \in JobIds : CancelJob(c, j)
    \/ \E c \in Clients : CancelSet(c)
    \/ \E w \in ActiveWorkers : Worker(w)

SpecSubmit == Init /\ [][NextSubmit]_vars

SpecLive == Init /\ [][NextLive]_vars /\ \A w \in ActiveWorkers : WF_vars(Worker(w))

\* ------------------------------------------------------------------ claims
Terminal(st) == st \in {COMPLETED, FAILED, CANCELLED}
Taken(j) == \E w \in Workers : wjob[w] = j

StatusMachine ==
    {<<PENDING, PROCESSING>>, <<PROCESSING, COMPLETED>>, <<PROCESSING, FAILED>>,
     <<PENDING, CANCELLED>>}

\* C1: a job's status changes only along PENDING -> PROCESSING -> COMPLETED | FAILED
\* or PENDING -> CANCELLED; a terminal status never changes again.
C1_StatusMachine ==
    [][\A j \in DOMAIN obj :
          obj'[j].status # obj[j].status
            => <<obj[j].status, obj'[j].status>> \in StatusMachine]_vars

\* C2: cancel_job returns True exactly when, at the call, the job is in the table
\* with status PENDING, and then sets the status to CANCELLED; otherwise it returns
\* False and changes no job and not the table.
C2_CancelContract ==
    [][\A c \in Clients :
          /\ (cpc[c] = "idle" /\ cpc'[c] = "cancel_set")
               => /\ InTable(carg'[c]) /\ obj[carg'[c]].status = PENDING
                  /\ obj' = obj /\ jobs' = jobs
          /\ (cpc[c] = "idle" /\ cpc'[c] = "idle" /\ last'.op = "cancel_job")
               => /\ last'.ret = FALSE
                  /\ ~(InTable(last'.job) /\ obj[last'.job].status = PENDING)
                  /\ obj' = obj /\ jobs' = jobs /\ files' = files
          /\ (cpc[c] = "cancel_set" /\ cpc'[c] = "idle")
               => /\ last'.op = "cancel_job" /\ last'.job = carg[c] /\ last'.ret = TRUE
                  /\ obj'[carg[c]].status = CANCELLED
                  /\ \A k \in DOMAIN obj : k # carg[c] => obj'[k] = obj[k]
                  /\ jobs' = jobs /\ files' = files]_vars

\* C2 witness: cancel_job has just returned True for a job now CANCELLED, while
\* another job of the table is not CANCELLED.
C2_Witness ==
    /\ last.op = "cancel_job" /\ last.ret = TRUE
    /\ obj[last.job].status = CANCELLED
    /\ \E k \in DOMAIN obj : InTable(k) /\ obj[k].status \notin {CANCELLED, PENDING}

\* C3: a cancel_job called after a worker took the job returns False, and no job
\* for which cancel_job returned True is run by a worker.
C3_CancelVsWorker ==
    [][/\ \A c \in Clients :
            (cpc[c] = "idle" /\ cpc'[c] = "cancel_set") => ~Taken(carg'[c])
       /\ \A w \in Workers :
            (wpc[w] = "begin" /\ wpc'[w] = "stage1") => wjob[w] \notin cancelled_ok
       /\ \A w \in Workers :
            (wpc[w] \notin {"idle", "check", "begin"}) => wjob[w] \notin cancelled_ok']_vars

\* C4: get_job_status returns None exactly when the job is not in the table and
\* otherwise a record, never raising; get_all_jobs returns a list, never raising.
C4_StatusNeverRaises ==
    /\ last.op = "get_job_status"
         => /\ last.ret # TypeError
            /\ (last.ret = NoneRet) <=> ~last.found
    /\ last.op = "get_all_jobs" => last.ret # TypeError

\* C5: every job of the table whose status is COMPLETED or FAILED has its result
\* file, which carries the result when COMPLETED and null when FAILED.
C5_TerminalHasFile ==
    \A j \in DOMAIN obj :
        (InTable(j) /\ obj[j].status \in {COMPLETED, FAILED})
          => /\ j \in DOMAIN files
             /\ files[j].result = IF obj[j].status = COMPLETED THEN obj[j].result ELSE None

\* C6: a job's progress never decreases, and it is 1.0 only while the status is
\* COMPLETED.
C6_Progress ==
    [][\A j \in DOMAIN obj :
          /\ obj'[j].progress >= obj[j].progress
          /\ obj'[j].progress = 1000 => obj'[j].status = COMPLETED]_vars

\* C7: once a job's status is terminal none of its fields changes.
C7_TerminalFrozen ==
    [][\A j \in DOMAIN obj : Terminal(obj[j].status) => obj'[j] = obj[j]]_vars

\* C8: a job one of whose stages raised is FAILED with its error recorded when its
\* result is saved, the file written says so, the worker is back in its loop, and
\* no step of a worker changes a job other than the one it runs.
C8_FailureIsolated ==
    [][\A w \in Workers :
          /\ (wpc[w] = "save" /\ wpc'[w] # "save" /\ wjob[w] \in raised)
               => /\ obj[wjob[w]].status = FAILED
                  /\ obj[wjob[w]].error # None
                  /\ wpc'[w] = "idle"
                  /\ files' # files
                       => /\ files'[wjob[w]].dict.status = FAILED
                          /\ files'[wjob[w]].result = None
          /\ (wpc'[w] # wpc[w] /\ wjob[w] # 0)
               => \A k \in DOMAIN obj : k # wjob[w] => obj'[k] = obj[k]]_vars

\* what cleanup_old_jobs is to remove: the jobs created more than max_age before
\* the time the call read
OlderThan(j, current_time, max_age_hours) ==
    current_time - obj[j].created_at > max_age_hours * SecondsPerHour

CleanupRemovesExactly(c) ==
    /\ \A j \in DOMAIN obj :
          InTable(j)' <=> (InTable(j) /\ ~OlderThan(j, carg[c], last'.max_age_hours))
    /\ \A a, b \in 1..Len(jobs') :
          a < b => \E x, y \in 1..Len(jobs) : x < y /\ jobs[x] = jobs'[a] /\ jobs[y] = jobs'[b]
    /\ obj' = obj
    /\ files' = files
    /\ job_queue' = job_queue

\* C9 as stated: cleanup_old_jobs removes exactly the jobs older than max_age,
\* changes nothing else, and returns the number of jobs it removed.
C9_ReturnsCount ==
    [][\A c \in Clients :
          (cpc[c] = "cleanup_lock" /\ cpc'[c] = "idle")
            => /\ CleanupRemovesExactly(c)
               /\ last'.ret = [count |-> Len(jobs) - Len(jobs')]]_vars

\* C9 amended: cleanup_old_jobs removes exactly the jobs older than max_age,
\* changes nothing else, and returns None.
C9_RemovesExactly ==
    [][\A c \in Clients :
          (cpc[c] = "cleanup_lock" /\ cpc'[c] = "idle")
            => /\ CleanupRemovesExactly(c)
               /\ last'.ret = NoneRet]_vars

\* C9 witness: a cleanup has just removed a job and kept another.
C9_Witness ==
    /\ last.op = "cleanup_old_jobs"
    /\ Len(jobs) = 1
    /\ \E j \in DOMAIN obj : ~InTable(j) /\ OlderThan(j, last.current_time, last.max_age_hours)
    /\ \E j \in DOMAIN obj : InTable(j) /\ ~OlderThan(j, last.current_time, last.max_age_hours)

NextGraph ==
    \/ \E d \in NextArtifacts, p \in {"whole", "streaming"}, c \in 1..MaxChunkSize :
          NewArtifact(d, p, c)
    \/ TransformToGraph
    \/ StreamingBegin
    \/ \E t \in ClockBase..(ClockBase + MaxClock) : StreamChunk(t)
    \/ StreamingEnd
    \/ \E monitor \in BOOLEAN : LoadClear(monitor)
    \/ \E eager \in BOOLEAN : LoadNodes(eager)
    \/ LoadNodesEnd
    \/ LoadRels
    \/ LoadRelsEnd

SpecGraph == Init /\ [][NextGraph]_vars

\* The transformation of one artifact, the enrichment of its payload with OCR
\* data, and the load of the enriched payload.
NextOcr ==
    \/ \E d \in Artifacts, p \in {"whole", "streaming"}, c \in 1..MaxChunkSize :
          run = 0 /\ Len(d) <= MaxEntities /\ NewArtifact(d, p, c)
    \/ TransformToGraph
    \/ StreamingBegin
    \/ \E t \in ClockBase..(ClockBase + MaxClock) : StreamChunk(t)
    \/ StreamingEnd
    \/ \E e \in Enrichments : EnhanceWithOcr(e)
    \/ \E monitor \in BOOLEAN : LoadClear(monitor)
    \/ \E eager \in BOOLEAN : LoadNodes(eager)
    \/ LoadNodesEnd
    \/ LoadRels
    \/ LoadRelsEnd

SpecOcr == Init /\ [][NextOcr]_vars

\* The transformation and load of one artifact, with batch writes that are
\* run more than once.
NextReplay ==
    \/ \E d \in Artifacts, p \in {"whole", "streaming"}, c \in 1..MaxChunkSize :
          run = 0 /\ Len(d) <= MaxEntities /\ NewArtifact(d, p, c)
    \/ TransformToGraph
    \/ StreamingBegin
    \/ \E t \in ClockBase..(ClockBase + MaxClock) : StreamChunk(t)
    \/ StreamingEnd
    \/ \E monitor \in BOOLEAN : LoadClear(monitor)
    \/ \E eager \in BOOLEAN : LoadNodes(eager)
    \/ \E eager \in BOOLEAN : ReplayNodes(eager)
    \/ LoadNodesEnd
    \/ LoadRels
    \/ ReplayRels
    \/ LoadRelsEnd

SpecReplay == Init /\ [][NextReplay]_vars

\* the load loop of upload_file starts on the payload
BeginLoad(p) ==
    /\ upc = "transformed"
    /\ ipc = "idle"
    /\ UploadFile(p)

\* the load loop is over: its last load_to_neo4j raised and the handler unlinks
\* the staged file and raises HTTP 500, or the counts are returned
Respond ==
    /\ upc = "transformed"
    /\ ipc = "done"
    /\ up_response' = response
    /\ IF response.status = 200
         THEN UNCHANGED <<staged, failed_at>>
         ELSE staged' = ABSENT /\ failed_at' = "load"
    /\ upc' = "done"
    /\ UNCHANGED <<entities_count, transformation, up_chunk_size, timerVars,
                   jobVars, ingestVars, graphVars>>


\* upload_file from the saving of the upload to its response, with the load
\* of SpecIngest as its load loop.
NextUpload ==
    \/ \E n \in EntityCounts : Receive(n)
    \/ SaveFile
    \/ \E left \in {ABSENT, PARTIAL} : SaveFails(left)
    \/ Extract
    \/ ExtractFails
    \/ Decode
    \/ DecodeFails
    \/ \E visual_nodes \in BOOLEAN : ChooseTransformation(visual_nodes)
    \/ Transform
    \/ TransformFails
    \/ TransformTimeout
    \/ Fallback
    \/ FallbackFails
    \/ \E p \in {[nodes |-> MaxNodes, rels |-> 1]} : BeginLoad(p)
    \/ \E t \in BOOLEAN : ClearData(t)
    \/ ClearRaises
    \/ \E k \in {"nodes", "rels"}, out \in Outcomes : WriteBatch(k, out)
    \/ NodesDone
    \/ RelsDone
    \/ LoadFinally
    \/ LoadFailed
    \/ LoadSucceeded
    \/ Respond

SpecUpload == Init /\ [][NextUpload]_vars

\* ---------------------------------------------------------------- C11
\* the errors execute_with_official_retry_pattern raises without retrying
FatalErrors == {"ServiceUnavailable", "AuthError"}

\* C11: a batch write that failed with AuthError or ServiceUnavailable is never
\* retried within the ingest: once load_to_neo4j has failed with such an error,
\* the next step of upload_file returns that error (HTTP 500) to the caller, and
\* load_to_neo4j (its clear, its writes) is not entered again.
C11_FatalNeverRetried ==
    [][(load_error \in FatalErrors)
         => /\ ipc = "load_failed"
                 => /\ ipc' = "done"
                    /\ response' = [status |-> 500, detail |-> load_error]
            /\ (ipc = "load" /\ attempt > 0) => ipc' = "load"]_vars

\* ---------------------------------------------------------------- C12
\* the store as a query sees it: how many nodes there are of each (label, uid,
\* properties), and the relationships by the uids of their ends
NodeView(n) == [label |-> n.label, uid |-> n.uid, props |-> n.props]
NodesView(g) ==
    LET views == {NodeView(g.nodes[id]) : id \in 1..Len(g.nodes)}
    IN  [v \in views |-> Cardinality({id \in 1..Len(g.nodes) : NodeView(g.nodes[id]) = v})]
RelsView(g) ==
    {[start_uid |-> g.nodes[r.start].uid, type |-> r.type, end_uid |-> g.nodes[r.end].uid] :
        r \in g.rels}
SameInput ==
    /\ run = 2
    /\ data = first.data
    /\ path = first.path
    /\ chunk_size = first.chunk_size

\* C12: when the same artifact has been ingested twice along the same path, the
\* store after the second ingest has the same nodes (label, uid, properties) and
\* the same relationships (start uid, type, end uid) as after the first ingest,
\* whatever the clock showed during the two runs.
C12_SameFinalState ==
    (gpc = "loaded" /\ SameInput)
      => /\ NodesView(graph) = NodesView(first.graph)
         /\ RelsView(graph) = RelsView(first.graph)

\* ---------------------------------------------------------------- C13
\* C13: in load_to_neo4j the prior data is removed before the first node batch
\* is written: the store is empty when the node loop starts, and when the load
\* of an ingest is over every node of the store was written by that ingest and
\* every relationship links two such nodes.
C13_ClearedBeforeLoad ==
    /\ (gpc = "nodes" /\ gbatch = 0) => graph = EmptyGraph
    /\ gpc = "loaded"
         => /\ \A id \in 1..Len(graph.nodes) : graph.nodes[id].by = run
            /\ \A r \in graph.rels : {r.start, r.end} \subseteq 1..Len(graph.nodes)

\* the second ingest was of a smaller payload than the first, and is loaded
C13_Witness ==
    /\ gpc = "loaded"
    /\ run = 2
    /\ Len(graph.nodes) > 0
    /\ Len(first.graph.nodes) > Len(graph.nodes)
    /\ Len(first.graph_payload.nodes) > Len(graph_payload.nodes)

\* ---------------------------------------------------------------- C14
PayloadKeys == {<<graph_payload.nodes[i].label, graph_payload.nodes[i].uid>> :
                   i \in 1..Len(graph_payload.nodes)}

\* C14: when load_to_neo4j has finished, the store holds exactly one node for
\* every distinct (label, uid) of the payload, found by that label and uid, and
\* for every relationship of the payload whose two ends are nodes of the payload
\* it holds a relationship of that type between the two nodes.
C14_LoadedGraph ==
    gpc = "loaded"
      => /\ \A key \in PayloadKeys : Cardinality(Match(graph.nodes, key[1], key[2])) = 1
         /\ Len(graph.nodes) = Cardinality(PayloadKeys)
         /\ \A i \in 1..Len(graph_payload.relationships) :
              LET rel == graph_payload.relationships[i]
              IN  (/\ <<rel.start_label, rel.start_uid>> \in PayloadKeys
                   /\ <<rel.end_label, rel.end_uid>> \in PayloadKeys)
                    => \E r \in graph.rels :
                          /\ r.type = rel.type
                          /\ r.start \in Match(graph.nodes, rel.start_label, rel.start_uid)
                          /\ r.end \in Match(graph.nodes, rel.end_label, rel.end_uid)

\* ---------------------------------------------------------------- C15
\* every LINE of the artifact gives start and end as arrays of 2 or 3 numbers
LinesAsArrays ==
    /\ \E i \in 1..Len(data) : data[i].type = "LINE"
    /\ \A i \in 1..Len(data) :
          data[i].type = "LINE"
            => /\ data[i].start.kind = "array" /\ Len(data[i].start.val) \in {2, 3}
               /\ data[i].end.kind = "array" /\ Len(data[i].end.val) \in {2, 3}

WallScalars == {"start_x", "start_y", "start_z", "end_x", "end_y", "end_z"}

\* C15: for an artifact whose LINEs give start and end as arrays of 2 or 3
\* numbers, a WallSegment node is written, and every WallSegment node of the
\* store has the numbers start_x, start_y, start_z, end_x, end_y, end_z and the
\* layer as properties, and no property start or end.
C15_WallCoordinates ==
    (gpc = "loaded" /\ LinesAsArrays)
      => /\ \E id \in 1..Len(graph.nodes) : graph.nodes[id].label = "WallSegment"
         /\ \A id \in 1..Len(graph.nodes) :
              graph.nodes[id].label = "WallSegment"
                => LET props == graph.nodes[id].props
                   IN  /\ WallScalars \cup {"layer"} \subseteq DOMAIN props
                       /\ \A k \in WallScalars : props[k].kind = "number"
                       /\ {"start", "end"} \cap DOMAIN props = {}

\* ---------------------------------------------------------------- C16
\* the payload is complete: the transformation has returned
Transformed == gpc \in {"load", "nodes", "rels", "loaded"}

\* C16: in the payload of an ingest no two nodes have the same (label, uid)
\* (each entity record gives at most one node, Building and Floor are the two
\* other nodes), on the whole-file path and on the streaming path.
C16_UniqueUids ==
    Transformed
      => \A i, j \in 1..Len(graph_payload.nodes) :
            i # j => \/ graph_payload.nodes[i].label # graph_payload.nodes[j].label
                     \/ graph_payload.nodes[i].uid # graph_payload.nodes[j].uid

\* ---------------------------------------------------------------- C17
UidsOf(gp) == [i \in 1..Len(gp.nodes) |-> gp.nodes[i].uid]

\* C17: for the same artifact, transform_to_graph_streaming (with any chunk
\* size) and transform_to_graph give the node of each entity the same uid.
C17_StreamingUidsAsWhole ==
    (run = 2 /\ Transformed /\ data = first.data /\ path # first.path)
      => UidsOf(graph_payload) = UidsOf(first.graph_payload)

\* ---------------------------------------------------------------- C18
\* a payload without its uids: the nodes and the relationships in their order
ShapeOf(gp) ==
    [nodes |-> [i \in 1..Len(gp.nodes) |->
                   [label |-> gp.nodes[i].label, props |-> gp.nodes[i].props]],
     relationships |-> [i \in 1..Len(gp.relationships) |->
                   [start_label |-> gp.relationships[i].start_label,
                    type |-> gp.relationships[i].type,
                    end_label |-> gp.relationships[i].end_label]]]

\* the uids of q are those of p renamed: equal uids of p are equal uids of q,
\* different ones are different, and the relationships link the renamed ends
Renamed(p, q) ==
    /\ Len(p.nodes) = Len(q.nodes)
    /\ Len(p.relationships) = Len(q.relationships)
    /\ \A i, j \in 1..Len(p.nodes) :
          (p.nodes[i].uid = p.nodes[j].uid) <=> (q.nodes[i].uid = q.nodes[j].uid)
    /\ \A k \in 1..Len(p.relationships), i \in 1..Len(p.nodes) :
          /\ (p.relationships[k].start_uid = p.nodes[i].uid)
               <=> (q.relationships[k].start_uid = q.nodes[i].uid)
          /\ (p.relationships[k].end_uid = p.nodes[i].uid)
               <=> (q.relationships[k].end_uid = q.nodes[i].uid)

\* C18: transform_to_graph_streaming of the same artifact with two chunk sizes
\* consumes every entity record of the artifact and yields the same nodes and
\* relationships up to a renaming of the uids.
C18_ChunkSizeIrrelevant ==
    (run = 2 /\ Transformed /\ data = first.data
       /\ path = "streaming" /\ first.path = "streaming")
      => /\ consumed = Len(data)
         /\ ShapeOf(graph_payload) = ShapeOf(first.graph_payload)
         /\ Renamed(first.graph_payload, graph_payload)

\* ---------------------------------------------------------------- C19
\* C19: upload_file chooses the streaming transformation exactly when the
\* entity count is greater than 5000 (5000 itself takes a whole-file path), and
\* the streaming chunk size is 2000 exactly when the count is greater than
\* 20000 and 3000 otherwise.
C19_StreamingThreshold ==
    transformation # "none"
      => /\ (transformation = "streaming") <=> (entities_count > 5000)
         /\ transformation = "streaming"
              => /\ (up_chunk_size = 2000) <=> (entities_count > 20000)
                 /\ (up_chunk_size = 3000) <=> (entities_count <= 20000)

\* one entity over the threshold: the streaming transformation with chunks of 3000
C19_Witness ==
    /\ upc = "transform"
    /\ entities_count = 5001
    /\ transformation = "streaming"
    /\ up_chunk_size = 3000

\* ---------------------------------------------------------------- C20
\* C20: when upload_file has ended in a failure of a step after it started to
\* write the upload into the staging directory (saving, extraction, decoding,
\* transformation, the load after its retries), the staged file does not exist
\* and the caller got an error, not a success response.
C20_FailureRemovesStaged ==
    (upc = "done" /\ failed_at # "none")
      => /\ staged = ABSENT
         /\ up_response.status # 200

\* ---------------------------------------------------------------- C21
\* C21: no step of an ingest (the clear, a batch write, the end of the load)
\* closes the driver Neo4jDriverManager holds, and while the session of the
\* batch writes is open the driver is open.
C21_DriverStaysOpen ==
    [][/\ driver = "open" => driver' = "open"
       /\ ipc' \in {"nodes", "rels"} => driver' = "open"]_vars

\* ---------------------------------------------------------------- C22
\* the relationships of the payload gp that end at its node i and start at a
\* node with one of the labels
Incoming(gp, i, labels) ==
    {k \in 1..Len(gp.relationships) :
        /\ gp.relationships[k].end_label = gp.nodes[i].label
        /\ gp.relationships[k].end_uid = gp.nodes[i].uid
        /\ gp.relationships[k].start_label \in labels
        /\ \E j \in 1..Len(gp.nodes) :
              /\ gp.nodes[j].label = gp.relationships[k].start_label
              /\ gp.nodes[j].uid = gp.relationships[k].start_uid}

\* C22 as stated: in the payload of an ingest, with or without the OCR
\* enrichment, every node other than the Building node is the end of a
\* relationship that starts at the Floor or the Building node.
C22_UnderFloorOrBuilding ==
    Transformed
      => \A i \in 1..Len(graph_payload.nodes) :
            graph_payload.nodes[i].label # "Building"
              => Incoming(graph_payload, i, {"Floor", "Building"}) # {}

\* C22 amended: every node other than the Building node and the OCRText nodes
\* is the end of a relationship that starts at the Floor or the Building node,
\* and every OCRText node is the end of a CONTAINS_TEXT relationship that starts
\* at an OCRRegion node of the payload.
C22_UnderFloorOrRegion ==
    Transformed
      => \A i \in 1..Len(graph_payload.nodes) :
            /\ graph_payload.nodes[i].label \notin {"Building", "OCRText"}
                 => Incoming(graph_payload, i, {"Floor", "Building"}) # {}
            /\ graph_payload.nodes[i].label = "OCRText"
                 => \E k \in Incoming(graph_payload, i, {"OCRRegion"}) :
                       graph_payload.relationships[k].type = "CONTAINS_TEXT"

\* C22 witness: an enriched payload with two OCRText nodes of two regions and
\* the node of an entity
C22_Witness ==
    /\ gpc = "load"
    /\ \E i \in 1..Len(graph_payload.nodes) : graph_payload.nodes[i].label = "WallSegment"
    /\ Cardinality({i \in 1..Len(graph_payload.nodes) :
                       graph_payload.nodes[i].label = "OCRRegion"}) = 2
    /\ Cardinality({i \in 1..Len(graph_payload.nodes) :
                       graph_payload.nodes[i].label = "OCRText"}) = 2

\* ---------------------------------------------------------------- C23
\* a job as a reader may see it only if every update were made under the lock:
\* a COMPLETED job has its progress 1.0, its result and completed_at, a FAILED
\* job its error and completed_at, a CANCELLED job its completed_at
Whole(d) ==
    /\ d.status = COMPLETED => d.progress = 1000 /\ d.completed_at # NoTime
    /\ d.status = FAILED => d.error # None /\ d.completed_at # NoTime
    /\ d.status = CANCELLED => d.completed_at # NoTime

\* C23: no field of a job and no entry of the job table is written while
\* another thread holds the processor's lock, and the job get_job_status or
\* get_all_jobs returns is never half-updated.
C23_WritesUnderLock ==
    [][/\ (lock # NoLock /\ (obj' # obj \/ jobs' # jobs))
            => /\ cpc[lock] = "cancel_set" /\ cpc'[lock] = "idle"
               /\ wpc' = wpc
       /\ (last'.op = "get_job_status" /\ last'.found /\ last'.ret # TypeError)
            => Whole(last'.ret)
       /\ (last'.op = "get_all_jobs" /\ last'.ret # TypeError)
            => \A k \in 1..Len(last'.ret.list) : Whole(last'.ret.list[k])]_vars

\* ---------------------------------------------------------------- C24
\* the worker w is inside _process_job
Running(w) == wpc[w] \notin {"idle", "check", "begin"}

\* C24: every PROCESSING job is being run by a worker, so at most NumWorkers
\* jobs are PROCESSING; no job is held by two workers or is on the queue twice
\* or while a worker holds it; and a job that _process_job starts has never
\* been started before.
C24_OneWorkerPerJob ==
    [][/\ \A j \in DOMAIN obj' :
            obj'[j].status = PROCESSING => \E w \in Workers : wjob'[w] = j /\ Running(w)'
       /\ Cardinality({j \in DOMAIN obj' : obj'[j].status = PROCESSING}) <= NumWorkers
       /\ \A v, w \in Workers : (v # w /\ wjob'[v] # 0) => wjob'[v] # wjob'[w]
       /\ \A a, b \in 1..Len(job_queue') : a # b => job_queue'[a] # job_queue'[b]
       /\ \A w \in Workers, a \in 1..Len(job_queue') : wjob'[w] # job_queue'[a]
       /\ \A w \in Workers :
            (wpc[w] = "begin" /\ wpc'[w] = "stage1")
              => /\ obj[wjob[w]].started_at = NoTime
                 /\ obj[wjob[w]].status \notin {PROCESSING, COMPLETED, FAILED}]_vars

\* C24 witness: the two workers run the two jobs at the same time
C24_Witness ==
    /\ \A w \in Workers : Running(w) /\ wjob[w] # 0
    /\ Cardinality({j \in DOMAIN obj : obj[j].status = PROCESSING}) = NumWorkers

\* ---------------------------------------------------------------- C25
\* the relationships of the store with their properties
RelsWithProps(g) ==
    {[start_uid |-> g.nodes[r.start].uid, type |-> r.type, end_uid |-> g.nodes[r.end].uid,
      props |-> r.props] : r \in g.rels}

\* C25: a batch write that is run again on the store that holds its effects
\* changes nothing: the store has the same nodes (no second node for a label
\* and uid, the same properties) and the same relationships as before.
C25_ReplayChangesNothing ==
    [][(gpc \in {"nodes", "rels"} /\ gpc' = gpc /\ gbatch' = gbatch)
         => /\ NodesView(graph') = NodesView(graph)
            /\ Len(graph'.nodes) = Len(graph.nodes)
            /\ RelsWithProps(graph') = RelsWithProps(graph)]_vars

\* the items of the batches of one kind that were handed to the store, in the
\* order they were handed over
RECURSIVE Handed(_, _)
Handed(log, kind) ==
    IF log = <<>> THEN <<>>
    ELSE (IF Head(log).kind = kind THEN Head(log).batch ELSE <<>>) \o Handed(Tail(log), kind)

IsPrefix(s, t) == Len(s) <= Len(t) /\ SubSeq(t, 1, Len(s)) = s

\* C26: load_to_neo4j writes the nodes before the relationships; a batch has
\* between one and batch_size items; the batches of a kind, put one after the
\* other, are the items of the payload in payload order, so they are contiguous
\* slices and every item is written exactly once.
C26_BatchesInOrder ==
    LET nodes == graph_payload.nodes
        rels  == SanitizedRels(graph_payload.relationships)
    IN  gpc \in {"nodes", "rels", "loaded"} =>
          /\ \A k \in 1..Len(written) :
                /\ Len(written[k].batch) \in 1..BatchSize
                /\ written[k].kind = "rels" =>
                      \A m \in k..Len(written) : written[m].kind = "rels"
          /\ IsPrefix(Handed(written, "nodes"), nodes)
          /\ IsPrefix(Handed(written, "rels"), rels)
          /\ gpc = "nodes" => Handed(written, "rels") = <<>>
          /\ gpc \in {"rels", "loaded"} => Handed(written, "nodes") = nodes
          /\ gpc = "loaded" => Handed(written, "rels") = rels

\* a load is over that took two full node batches and two relationship
\* batches, the last one short
C26_Witness ==
    /\ gpc = "loaded"
    /\ Len(graph_payload.nodes) = 2 * BatchSize
    /\ Len(graph_payload.relationships) = BatchSize + 1
    /\ Len(written) = 4
    /\ Len(written[4].batch) = 1

\* C27: when the timer of the streaming transformation goes off, upload_file
\* does not respond with an error and keeps the staged file: it runs
\* transform_to_graph; when that returns, the timer is off and the load loop is
\* next, with the payload of transform_to_graph; and the timer is never armed
\* while the load runs.
C27_TimeoutFallsBack ==
    [][/\ (alarm = "armed" /\ alarm' = "fired")
            => /\ upc' = "fallback"
               /\ failed_at' = "none"
               /\ staged' = staged
       /\ (upc = "fallback" /\ upc' # "fallback" /\ failed_at' = "none")
            => /\ upc' = "transformed"
               /\ payload_by' = "whole"
               /\ alarm' = "off"
       /\ ipc' # "idle" => (alarm' = "off" /\ payload_by' = payload_by)]_vars

\* the load of an upload has finished whose streaming transformation had
\* timed out
C27_Witness ==
    /\ transformation = "streaming"
    /\ payload_by = "whole"
    /\ alarm = "off"
    /\ upc = "done"
    /\ failed_at = "none"

\* the relationship types of the claim
OcrTypes == {"VALIDATES", "DISCOVERS"}

\* the rows _merge_relationships_batch made of the VALIDATES and DISCOVERS
\* relationships carry the properties these have in the payload
OcrPropsHanded ==
    LET rels   == graph_payload.relationships
        handed == Handed(written, "rels")
    IN  \A i \in 1..Len(rels) :
            rels[i].type \in OcrTypes => rel_data(handed[i]).props = rels[i].properties

\* C28: when the load is over, for every VALIDATES and DISCOVERS relationship
\* of the payload the row that _merge_relationships_batch made of it carries
\* the properties the relationship has in the payload, and the store holds a
\* relationship of that type with these properties.
C28_OcrPropsWritten ==
    gpc = "loaded" =>
      /\ OcrPropsHanded
      /\ \A i \in 1..Len(graph_payload.relationships) :
            LET rel == graph_payload.relationships[i]
            IN  rel.type \in OcrTypes =>
                  \E r \in graph.rels : r.type = rel.type /\ r.props = rel.properties

\* submit_job has returned the id j: the job was put on the queue
Submitted(j) ==
    /\ j <= job_counter
    /\ \A c \in Clients : carg[c] = j => cpc[c] \notin {"submit_insert", "submit_put"}

\* C29: with the workers scheduled fairly and every stage returning or raising,
\* every job that was submitted is eventually COMPLETED or FAILED, unless a
\* cancel_job of it succeeded.
C29_EveryJobEnds ==
    \A j \in JobIds :
        Submitted(j) ~> (\/ j \in cancelled_ok
                         \/ j <= Len(obj) /\ obj[j].status \in {COMPLETED, FAILED})

\* a job has failed and another job, submitted and not cancelled, is COMPLETED
C29_Witness ==
    \E j, k \in JobIds :
        /\ Submitted(j) /\ Submitted(k)
        /\ cancelled_ok = {}
        /\ obj[j].status = FAILED
        /\ obj[k].status = COMPLETED
        /\ \A w \in Workers : wpc[w] = "idle"

\* the calls of submit_job that hold an id and have not returned it yet
InSubmit(c) == cpc[c] \in {"submit_insert", "submit_put"}

Queued(j) == \E k \in 1..Len(job_queue) : job_queue[k] = j

\* C30: the ids of concurrent submit_job calls differ from each other and from
\* every id given out before; a job is entered in the table, as PENDING, before
\* it is on the queue or with a worker; so the jobs on the queue and the job a
\* worker holds are in the table (no cleanup_old_jobs runs here).
C30_DistinctIdsTableFirst ==
    [][/\ \A c \in AllClients :
            /\ InSubmit(c)' => carg'[c] \in 1..job_counter'
            /\ (~InSubmit(c) /\ InSubmit(c)') => carg'[c] > job_counter
            /\ \A d \in AllClients \ {c} :
                  (InSubmit(c)' /\ InSubmit(d)') => carg'[c] # carg'[d]
            /\ (cpc[c] = "submit_put" /\ cpc'[c] = "idle")
                  => /\ last'.op = "submit_job" /\ last'.ret = carg[c]
                     /\ ~Queued(carg[c]) /\ ~Taken(carg[c])
                     /\ InTable(carg[c])
            /\ (cpc[c] = "submit_insert" /\ cpc'[c] = "submit_put")
                  => /\ ~InTable(carg[c]) /\ InTable(carg[c])'
                     /\ obj'[carg[c]].status = PENDING
                     /\ ~Queued(carg[c])' /\ ~Taken(carg[c])'
       /\ \A j \in JobIds : (Queued(j)' \/ Taken(j)') => InTable(j)']_vars

\* two calls of submit_job overlapped and both jobs were run by a worker
C30_Witness ==
    /\ last.op = "submit_job"
    /\ last.ret = 1
    /\ job_counter = 2
    /\ Len(jobs) = 2 /\ jobs[1] = 2
    /\ obj[2].status \in {COMPLETED, FAILED}
====
